---------------------------- MODULE Spec2Model ----------------------------
(***************************************************************************)
(* A model of the doxie-discs vinyl catalog: the PostgreSQL tables behind  *)
(* the record aggregate (records, artist_record, genre_record, tracks and  *)
(* the artists, genres and labels they refer to), the services that read   *)
(* and write them (db/models), the record handlers (api/handlers) and the  *)
(* server-held session service.                                            *)
(*                                                                         *)
(* A text value is a tuple of one-character strings (<<"K","b">>), so that *)
(* ILIKE can be computed character by character; values that are only      *)
(* stored and compared (roles, track titles, positions) are TLA+ strings.  *)
(* created_at / updated_at columns and the ORDER BY of the readers are not *)
(* modelled: a query result is the set (Search: the bag) of its rows.      *)
(***************************************************************************)
EXTENDS Integers, Sequences, FiniteSets, Bags, TLC

VARIABLES
    artists,          \* table artists: rows [id, name, description, user_id]
    genres,           \* table genres:  rows [id, name, description, user_id]
    labels,           \* table labels:  rows [id, name, description, user_id]
    records,          \* table records
    artist_record,    \* junction table: rows [artist_id, record_id, role]
    genre_record,     \* junction table: rows [genre_id, record_id]
    tracks,           \* table tracks: rows [id, title, duration, position, record_id]
    records_id_seq,   \* next value of the SERIAL sequence of records.id
    tracks_id_seq,    \* next value of the SERIAL sequence of tracks.id
    sessions,         \* table sessions: rows [id, user_id, token, expires_at]
    sessions_id_seq,  \* next value of the SERIAL sequence of sessions.id
    now,              \* the clock read by time.Now() and NOW()
    wasExpired,       \* history: tokens of sessions seen with now > expires_at
    artists_id_seq,   \* next value of the SERIAL sequence of artists.id
    users,            \* table users: rows [id, email, password_hash, name]
    users_id_seq,     \* next value of the SERIAL sequence of users.id
    inflight,         \* per request process: the request between two statements
    seen,             \* history: per reader in flight, the aggregates the
                      \* record it reads has been since the read began
    ret               \* the last call: [op, arg, err, val]

tables == <<artists, genres, labels, records, artist_record, genre_record, tracks>>
seqs == <<records_id_seq, tracks_id_seq, artists_id_seq>>
sessionVars == <<sessions, sessions_id_seq, now, wasExpired>>
userVars == <<users, users_id_seq, inflight>>
vars == <<artists, genres, labels, records, artist_record, genre_record, tracks,
          records_id_seq, tracks_id_seq, sessions, sessions_id_seq, now,
          wasExpired, artists_id_seq, users, users_id_seq, inflight, seen,
          ret>>

---------------------------------------------------------------------------
(* Bounds of the model. *)

\* Number of values the records.id sequence hands out.
MaxRecordID == 2
\* Number of values the tracks.id sequence hands out.
MaxTrackID == 3
\* Number of values the sessions.id sequence hands out.
MaxSessionID == 2
\* Last instant of the clock.
MaxTime == 4
\* Number of values the artists.id sequence hands out.
MaxArtistID == 5
\* Number of values the users.id sequence hands out.
MaxUserID == 4

\* The users the tables of the catalogue start with rows of.
Users == {1, 2}

\* The request processes that run side by side.
Procs == {1, 2}

---------------------------------------------------------------------------
(* database/sql null mapping *)

\* sql.NullString{String: s, Valid: s != ""}: the column is NULL for "".
NullString(s) == IF s # <<>> THEN [Valid |-> TRUE, String |-> s]
                 ELSE [Valid |-> FALSE, String |-> <<>>]

\* sql.NullInt32{Int32: int32(n), Valid: n != 0}; the years and ids of the
\* model lie within int32, where int32(n) = n.
NullInt32(n) == IF n # 0 THEN [Valid |-> TRUE, Int32 |-> n]
                ELSE [Valid |-> FALSE, Int32 |-> 0]

\* if v.Valid { field = v.String }: a NULL column reads as the zero value "".
FromNullString(v) == IF v.Valid THEN v.String ELSE <<>>

\* if v.Valid { field = int(v.Int32) }
FromNullInt32(v) == IF v.Valid THEN v.Int32 ELSE 0

---------------------------------------------------------------------------
(* The database as one value: what a transaction works on and, on error,   *)
(* throws away.                                                            *)

DB == [artists |-> artists, genres |-> genres, labels |-> labels,
       records |-> records, artist_record |-> artist_record,
       genre_record |-> genre_record, tracks |-> tracks,
       records_id_seq |-> records_id_seq, tracks_id_seq |-> tracks_id_seq,
       artists_id_seq |-> artists_id_seq]

\* defer tx.Rollback(): every row change of the transaction is undone; the
\* values drawn from the sequences are not handed out again.
Rollback(before, tx) ==
    [before EXCEPT !.records_id_seq = tx.records_id_seq,
                   !.tracks_id_seq = tx.tracks_id_seq,
                   !.artists_id_seq = tx.artists_id_seq]

ArtistExists(db, id) == \E a \in db.artists : a.id = id
GenreExists(db, id) == \E g \in db.genres : g.id = id
LabelExists(db, id) == \E l \in db.labels : l.id = id
RecordExists(db, id) == \E r \in db.records : r.id = id

\* The row of records with this id (the caller checks there is one).
RecordRow(db, id) == CHOOSE r \in db.records : r.id = id

---------------------------------------------------------------------------
(* SQL statements of the record aggregate, with the constraints of the     *)
(* schema. Each returns [err, db]; err = "" is success.                    *)

Ok(db) == [err |-> "", db |-> db]
Fail(e, db) == [err |-> e, db |-> db]

\* The insert with the role left out of the column list.
InsertArtistRecord_NoRole(db, row) ==
    IF ~ArtistExists(db, row.artist_id) \/ ~RecordExists(db, row.record_id)
    THEN Fail("foreign key violation", db)
    ELSE IF \E x \in db.artist_record :
                x.artist_id = row.artist_id /\ x.record_id = row.record_id
    THEN Fail("duplicate key", db)
    ELSE Ok([db EXCEPT !.artist_record = @ \cup {[row EXCEPT !.role = ""]}])

\* INSERT INTO artist_record (artist_id, record_id, role): both foreign
\* keys must exist and (artist_id, record_id) is the primary key.
InsertArtistRecord(db, row) ==
    IF ~ArtistExists(db, row.artist_id) \/ ~RecordExists(db, row.record_id)
    THEN Fail("foreign key violation", db)
    ELSE IF \E x \in db.artist_record :
                x.artist_id = row.artist_id /\ x.record_id = row.record_id
    THEN Fail("duplicate key", db)
    ELSE Ok([db EXCEPT !.artist_record = @ \cup {row}])

\* INSERT INTO genre_record (genre_id, record_id)
InsertGenreRecord(db, row) ==
    IF ~GenreExists(db, row.genre_id) \/ ~RecordExists(db, row.record_id)
    THEN Fail("foreign key violation", db)
    ELSE IF \E x \in db.genre_record :
                x.genre_id = row.genre_id /\ x.record_id = row.record_id
    THEN Fail("duplicate key", db)
    ELSE Ok([db EXCEPT !.genre_record = @ \cup {row}])

\* INSERT INTO tracks (title, duration, position, record_id) RETURNING id
InsertTrack(db, t, rid) ==
    IF ~RecordExists(db, rid)
    THEN Fail("foreign key violation", db)
    ELSE Ok([db EXCEPT
               !.tracks = @ \cup {[id |-> db.tracks_id_seq, title |-> t.Title,
                                   duration |-> t.Duration,
                                   position |-> t.Position, record_id |-> rid]},
               !.tracks_id_seq = @ + 1])

\* for _, artist := range record.Artists { Exec(artist.ID, record.ID, artist.Role) }
\* leaving at the first error.
RECURSIVE InsertArtists(_, _, _)
InsertArtists(db, list, rid) ==
    IF list = <<>> THEN Ok(db)
    ELSE LET s == InsertArtistRecord(db, [artist_id |-> Head(list).ID,
                                          record_id |-> rid,
                                          role |-> Head(list).Role])
         IN IF s.err # "" THEN s ELSE InsertArtists(s.db, Tail(list), rid)

\* for _, genre := range record.Genres { Exec(genre.ID, record.ID) }
RECURSIVE InsertGenres(_, _, _)
InsertGenres(db, list, rid) ==
    IF list = <<>> THEN Ok(db)
    ELSE LET s == InsertGenreRecord(db, [genre_id |-> Head(list).ID,
                                         record_id |-> rid])
         IN IF s.err # "" THEN s ELSE InsertGenres(s.db, Tail(list), rid)

\* for i := range record.Tracks { QueryRow(...).Scan(&trackID) }
RECURSIVE InsertTracks(_, _, _)
InsertTracks(db, list, rid) ==
    IF list = <<>> THEN Ok(db)
    ELSE LET s == InsertTrack(db, Head(list), rid)
         IN IF s.err # "" THEN s ELSE InsertTracks(s.db, Tail(list), rid)

\* The three existence checks at the head of Create, in their order.
CheckReferences(db, rec) ==
    IF \E i \in 1..Len(rec.Artists) : ~ArtistExists(db, rec.Artists[i].ID)
    THEN "artist does not exist"
    ELSE IF \E i \in 1..Len(rec.Genres) : ~GenreExists(db, rec.Genres[i].ID)
    THEN "genre does not exist"
    ELSE IF rec.LabelID # 0 /\ ~LabelExists(db, rec.LabelID)
    THEN "label does not exist"
    ELSE ""

\* The column values Create and Update bind for the base row.
RecordColumns(rec) ==
    [title |-> rec.Title,
     release_year |-> NullInt32(rec.ReleaseYear),
     catalog_number |-> NullString(rec.CatalogNumber),
     condition |-> NullString(rec.Condition),
     notes |-> NullString(rec.Notes),
     cover_image_url |-> NullString(rec.CoverImageURL),
     storage_location |-> NullString(rec.StorageLocation),
     label_id |-> IF rec.LabelID # 0
                  THEN [Valid |-> TRUE, Int32 |-> rec.LabelID]
                  ELSE [Valid |-> FALSE, Int32 |-> 0]]

\* A row of records from its id, owner and columns.
MakeRecordRow(id, uid, c) ==
    [id |-> id, user_id |-> uid, title |-> c.title,
     release_year |-> c.release_year, catalog_number |-> c.catalog_number,
     condition |-> c.condition, notes |-> c.notes,
     cover_image_url |-> c.cover_image_url,
     storage_location |-> c.storage_location, label_id |-> c.label_id]

\* INSERT INTO records (...) RETURNING id: user_id and label_id are foreign
\* keys; the id comes from the sequence.
InsertRecord(db, rec) ==
    LET c == RecordColumns(rec)
        tx == [db EXCEPT !.records_id_seq = @ + 1]
    IN IF rec.UserID \notin Users
          \/ (c.label_id.Valid /\ ~LabelExists(db, c.label_id.Int32))
       THEN Fail("foreign key violation", tx)
       ELSE Ok([tx EXCEPT !.records =
                    @ \cup {MakeRecordRow(db.records_id_seq, rec.UserID, c)}])

\* Create without the existence checks and with its statements run outside
\* the transaction: what was written before an error stays.
CreateTx_Unchecked(db, rec) ==
    LET id == db.records_id_seq
        s1 == InsertRecord(db, rec)
        s2 == InsertArtists(s1.db, rec.Artists, id)
        s3 == InsertGenres(s2.db, rec.Genres, id)
        s4 == InsertTracks(s3.db, rec.Tracks, id)
    IN IF s1.err # "" THEN [err |-> s1.err, db |-> s1.db, id |-> 0]
       ELSE IF s2.err # "" THEN [err |-> s2.err, db |-> s2.db, id |-> 0]
       ELSE IF s3.err # "" THEN [err |-> s3.err, db |-> s3.db, id |-> 0]
       ELSE IF s4.err # "" THEN [err |-> s4.err, db |-> s4.db, id |-> 0]
       ELSE [err |-> "", db |-> s4.db, id |-> id]

\* RecordService.Create inside its transaction: [err, db, id].
CreateTx(db, rec) ==
    LET chk == CheckReferences(db, rec)
        id == db.records_id_seq
        s1 == InsertRecord(db, rec)
        s2 == InsertArtists(s1.db, rec.Artists, id)
        s3 == InsertGenres(s2.db, rec.Genres, id)
        s4 == InsertTracks(s3.db, rec.Tracks, id)
    IN IF chk # "" THEN [err |-> chk, db |-> db, id |-> 0]
       ELSE IF s1.err # "" THEN [err |-> s1.err, db |-> Rollback(db, s1.db), id |-> 0]
       ELSE IF s2.err # "" THEN [err |-> s2.err, db |-> Rollback(db, s2.db), id |-> 0]
       ELSE IF s3.err # "" THEN [err |-> s3.err, db |-> Rollback(db, s3.db), id |-> 0]
       ELSE IF s4.err # "" THEN [err |-> s4.err, db |-> Rollback(db, s4.db), id |-> 0]
       ELSE [err |-> "", db |-> s4.db, id |-> id]

\* UPDATE records SET ... WHERE id = $9 AND user_id = $10 RETURNING updated_at
UpdateRecordRow(db, rec) ==
    LET c == RecordColumns(rec)
        hit == {r \in db.records : r.id = rec.ID /\ r.user_id = rec.UserID}
    IN IF hit = {} THEN Fail("record not found or does not belong to user", db)
       ELSE IF c.label_id.Valid /\ ~LabelExists(db, c.label_id.Int32)
       THEN Fail("foreign key violation", db)
       ELSE Ok([db EXCEPT !.records =
                    (@ \ hit) \cup {MakeRecordRow(rec.ID, rec.UserID, c)}])

\* The delete that removes nothing.
DeleteArtistRecords_Kept(db, rid) == db

\* DELETE FROM artist_record WHERE record_id = $1
DeleteArtistRecords(db, rid) ==
    [db EXCEPT !.artist_record = {x \in @ : x.record_id # rid}]

\* DELETE FROM genre_record WHERE record_id = $1
DeleteGenreRecords(db, rid) ==
    [db EXCEPT !.genre_record = {x \in @ : x.record_id # rid}]

\* DELETE FROM tracks WHERE record_id = $1
DeleteTracks(db, rid) ==
    [db EXCEPT !.tracks = {x \in @ : x.record_id # rid}]

\* The tracks deleted and reinserted whatever the length of the list.
ReplaceTracks_Always(db, rec) ==
    InsertTracks(DeleteTracks(db, rec.ID), rec.Tracks, rec.ID)

\* if len(record.Tracks) > 0 { delete the tracks and insert the new ones }
ReplaceTracks(db, rec) ==
    IF Len(rec.Tracks) > 0
    THEN InsertTracks(DeleteTracks(db, rec.ID), rec.Tracks, rec.ID)
    ELSE Ok(db)

\* Update that leaves what it wrote when a later statement fails.
UpdateTx_NoRollback(db, rec) ==
    LET s1 == UpdateRecordRow(db, rec)
        s2 == InsertArtists(DeleteArtistRecords(s1.db, rec.ID), rec.Artists, rec.ID)
        s3 == InsertGenres(DeleteGenreRecords(s2.db, rec.ID), rec.Genres, rec.ID)
        s4 == ReplaceTracks(s3.db, rec)
    IN IF s1.err # "" THEN Fail(s1.err, s1.db)
       ELSE IF s2.err # "" THEN Fail(s2.err, s2.db)
       ELSE IF s3.err # "" THEN Fail(s3.err, s3.db)
       ELSE IF s4.err # "" THEN Fail(s4.err, s4.db)
       ELSE Ok(s4.db)

\* RecordService.Update inside its transaction: [err, db].
UpdateTx(db, rec) ==
    LET s1 == UpdateRecordRow(db, rec)
        s2 == InsertArtists(DeleteArtistRecords(s1.db, rec.ID), rec.Artists, rec.ID)
        s3 == InsertGenres(DeleteGenreRecords(s2.db, rec.ID), rec.Genres, rec.ID)
        s4 == ReplaceTracks(s3.db, rec)
    IN IF s1.err # "" THEN Fail(s1.err, Rollback(db, s1.db))
       ELSE IF s2.err # "" THEN Fail(s2.err, Rollback(db, s2.db))
       ELSE IF s3.err # "" THEN Fail(s3.err, Rollback(db, s3.db))
       ELSE IF s4.err # "" THEN Fail(s4.err, Rollback(db, s4.db))
       ELSE Ok(s4.db)

\* The cascade declared on artist_record only.
CascadeJunctions_ArtistOnly(db, rid) == DeleteArtistRecords(db, rid)

\* ON DELETE CASCADE of artist_record.record_id and genre_record.record_id
CascadeJunctions(db, rid) ==
    DeleteGenreRecords(DeleteArtistRecords(db, rid), rid)

\* ON DELETE CASCADE of tracks.record_id
CascadeTracks(db, rid) == DeleteTracks(db, rid)

\* RecordService.Delete: DELETE FROM records WHERE id = $1, no row is no error.
DeleteRecord(db, id) ==
    IF RecordExists(db, id)
    THEN CascadeTracks(CascadeJunctions(
             [db EXCEPT !.records = {r \in @ : r.id # id}], id), id)
    ELSE db

---------------------------------------------------------------------------
(* The readers of the record aggregate. *)

\* SELECT a.id, a.name, a.description, a.user_id, ar.role FROM artists a
\* JOIN artist_record ar ON a.id = ar.artist_id WHERE ar.record_id = $1
loadArtists(db, rid) ==
    {[ID |-> p[1].id, Name |-> p[1].name,
      Description |-> FromNullString(p[1].description),
      UserID |-> p[1].user_id, Role |-> p[2].role] :
        p \in {q \in db.artists \X db.artist_record :
                  q[1].id = q[2].artist_id /\ q[2].record_id = rid}}

\* SELECT g.id, g.name, g.description, g.user_id FROM genres g
\* JOIN genre_record gr ON g.id = gr.genre_id WHERE gr.record_id = $1
loadGenres(db, rid) ==
    {[ID |-> p[1].id, Name |-> p[1].name,
      Description |-> FromNullString(p[1].description),
      UserID |-> p[1].user_id] :
        p \in {q \in db.genres \X db.genre_record :
                  q[1].id = q[2].genre_id /\ q[2].record_id = rid}}

\* SELECT id, title, duration, position FROM tracks WHERE record_id = $1
loadTracks(db, rid) ==
    {[ID |-> t.id, Title |-> t.title, Duration |-> t.duration,
      Position |-> t.position, RecordID |-> rid] :
        t \in {x \in db.tracks : x.record_id = rid}}

\* SELECT ... FROM labels WHERE id = $1: the set of the labels found, one
\* or none (none is sql.ErrNoRows).
loadLabel(db, lid) ==
    {[ID |-> l.id, Name |-> l.name,
      Description |-> FromNullString(l.description), UserID |-> l.user_id] :
        l \in {x \in db.labels : x.id = lid}}

\* The scalar fields of a Record scanned from a row of records.
ScanRecord(r) ==
    [ID |-> r.id, Title |-> r.title,
     ReleaseYear |-> FromNullInt32(r.release_year),
     CatalogNumber |-> FromNullString(r.catalog_number),
     Condition |-> FromNullString(r.condition),
     Notes |-> FromNullString(r.notes),
     CoverImageURL |-> FromNullString(r.cover_image_url),
     StorageLocation |-> FromNullString(r.storage_location),
     UserID |-> r.user_id, LabelID |-> FromNullInt32(r.label_id)]

NoRecord == [ID |-> 0]

\* RecordService.GetByID: [err, rec], rec with the scalar fields under
\* Fields, the sets Artists, Genres, Tracks and Label (empty: no label).
GetByID(db, id) ==
    IF ~RecordExists(db, id) THEN [err |-> "sql: no rows", rec |-> NoRecord]
    ELSE LET r == RecordRow(db, id)
         IN IF r.label_id.Valid /\ loadLabel(db, r.label_id.Int32) = {}
            THEN [err |-> "sql: no rows", rec |-> NoRecord]
            ELSE [err |-> "",
                  rec |-> [ID |-> id, Fields |-> ScanRecord(r),
                           Artists |-> loadArtists(db, id),
                           Genres |-> loadGenres(db, id),
                           Tracks |-> loadTracks(db, id),
                           Label |-> IF r.label_id.Valid
                                     THEN loadLabel(db, r.label_id.Int32)
                                     ELSE {}]]

\* The records ListByUserID and Search hand back for a row: as GetByID, but
\* without tracks and with the label loaded when LabelID != 0.
Hydrate(db, r) ==
    [ID |-> r.id, Fields |-> ScanRecord(r),
     Artists |-> loadArtists(db, r.id), Genres |-> loadGenres(db, r.id),
     Tracks |-> {},
     Label |-> IF FromNullInt32(r.label_id) # 0
               THEN loadLabel(db, FromNullInt32(r.label_id)) ELSE {}]

\* RecordService.ListByUserID: SELECT ... FROM records WHERE user_id = $1
ListByUserID(db, uid) ==
    {Hydrate(db, r) : r \in {x \in db.records : x.user_id = uid}}

---------------------------------------------------------------------------
(* Entity services: artists, genres and labels share one pattern. *)

\* The WHERE clause without its user_id condition.
OwnedRows_AnyUser(rows, e) == {x \in rows : x.id = e.ID}

\* The rows the WHERE clause id = $3 AND user_id = $4 selects.
OwnedRows(rows, e) == {x \in rows : x.id = e.ID /\ x.user_id = e.UserID}

\* UPDATE <table> SET name = $1, description = $2 WHERE id = $3 AND
\* user_id = $4: the rows of the table afterwards.
UpdateOwnedRow(rows, e) ==
    (rows \ OwnedRows(rows, e))
    \cup {[x EXCEPT !.name = e.Name, !.description = NullString(e.Description)] :
             x \in OwnedRows(rows, e)}

\* UNIQUE(name, user_id) of artists, for the row e would become.
ArtistNameTaken(db, e) ==
    \E a \in db.artists : a.id # e.ID /\ a.name = e.Name /\ a.user_id = e.UserID

\* ArtistService.Update: [err, db]
ArtistUpdateOp(db, e) ==
    IF OwnedRows(db.artists, e) = {} THEN Fail("sql: no rows", db)
    ELSE IF ArtistNameTaken(db, e) THEN Fail("duplicate key", db)
    ELSE Ok([db EXCEPT !.artists = UpdateOwnedRow(@, e)])

\* GenreService.Update: [err, db]
GenreUpdateOp(db, e) ==
    IF OwnedRows(db.genres, e) = {} THEN Fail("sql: no rows", db)
    ELSE Ok([db EXCEPT !.genres = UpdateOwnedRow(@, e)])

\* LabelService.Update: [err, db]
LabelUpdateOp(db, e) ==
    IF OwnedRows(db.labels, e) = {} THEN Fail("sql: no rows", db)
    ELSE Ok([db EXCEPT !.labels = UpdateOwnedRow(@, e)])

---------------------------------------------------------------------------
(* RecordService.Search: the dynamic ILIKE query. *)

\* Case folding of ILIKE, on the letters the model uses.
Lower(c) ==
    CASE c = "A" -> "a" [] c = "B" -> "b" [] c = "C" -> "c"
      [] c = "J" -> "j" [] c = "K" -> "k" [] c = "M" -> "m"
      [] OTHER -> c

\* text ILIKE pattern: % matches any run of characters, _ any one
\* character, any other character itself, letters without regard to case.
RECURSIVE Like(_, _)
Like(text, pattern) ==
    IF pattern = <<>> THEN text = <<>>
    ELSE IF Head(pattern) = "%"
         THEN Like(text, Tail(pattern))
              \/ (text # <<>> /\ Like(Tail(text), pattern))
    ELSE IF text = <<>> THEN FALSE
    ELSE IF Head(pattern) = "_" THEN Like(Tail(text), Tail(pattern))
    ELSE Lower(Head(text)) = Lower(Head(pattern))
         /\ Like(Tail(text), Tail(pattern))

\* column ILIKE $n with the parameter "%"+x+"%"; NULL ILIKE ... is not true.
ILikeParam(col, x) == col.Valid /\ Like(col.String, <<"%">> \o x \o <<"%">>)

\* A NOT NULL text column as a nullable value.
NotNull(text) == [Valid |-> TRUE, String |-> text]
\* The name column of the right side of a LEFT JOIN that found no row.
NullName == [Valid |-> FALSE, String |-> <<>>]

\* LEFT JOIN artist_record ar ON r.id = ar.record_id LEFT JOIN artists a ON
\* ar.artist_id = a.id: the a.name of each joined row.
JoinArtistNames(db, r) ==
    LET ars == {x \in db.artist_record : x.record_id = r.id}
    IN IF ars = {} THEN {[key |-> 0, name |-> NullName]}
       ELSE {[key |-> x.artist_id,
              name |-> IF ArtistExists(db, x.artist_id)
                       THEN NotNull((CHOOSE a \in db.artists : a.id = x.artist_id).name)
                       ELSE NullName] : x \in ars}

\* LEFT JOIN genre_record gr ON r.id = gr.record_id LEFT JOIN genres g ON
\* gr.genre_id = g.id: the g.name of each joined row.
JoinGenreNames(db, r) ==
    LET grs == {x \in db.genre_record : x.record_id = r.id}
    IN IF grs = {} THEN {[key |-> 0, name |-> NullName]}
       ELSE {[key |-> x.genre_id,
              name |-> IF GenreExists(db, x.genre_id)
                       THEN NotNull((CHOOSE g \in db.genres : g.id = x.genre_id).name)
                       ELSE NullName] : x \in grs}

\* LEFT JOIN labels l ON r.label_id = l.id: the l.name of the joined row.
JoinLabelName(db, r) ==
    IF r.label_id.Valid /\ LabelExists(db, r.label_id.Int32)
    THEN NotNull((CHOOSE l \in db.labels : l.id = r.label_id.Int32).name)
    ELSE NullName

\* The WHERE clause on one joined row: user_id = $1 and one condition per
\* non-empty parameter.
SearchWhere(r, aname, gname, lname, uid, query, artist, genre, label, location) ==
    /\ r.user_id = uid
    /\ query # <<>> =>
          \/ ILikeParam(NotNull(r.title), query)
          \/ ILikeParam(r.notes, query)
          \/ ILikeParam(r.catalog_number, query)
    /\ artist # <<>> => ILikeParam(aname, artist)
    /\ genre # <<>> => ILikeParam(gname, genre)
    /\ label # <<>> => ILikeParam(lname, label)
    /\ location # <<>> => ILikeParam(r.storage_location, location)

\* The rows the joins and the WHERE clause yield, as a bag of records rows:
\* a row of records occurs once per joined artist and genre that passes.
SearchJoin(db, uid, query, artist, genre, label, location) ==
    LET n(r) == Cardinality(
            {p \in JoinArtistNames(db, r) \X JoinGenreNames(db, r) :
                SearchWhere(r, p[1].name, p[2].name, JoinLabelName(db, r),
                            uid, query, artist, genre, label, location)})
        hit == {r \in db.records : n(r) > 0}
    IN [r \in hit |-> n(r)]

\* The joined rows without DISTINCT.
Distinct_Kept(bag) == bag

\* SELECT DISTINCT: every row once.
Distinct(bag) == [x \in DOMAIN bag |-> 1]

\* RecordService.Search: the bag of the records returned, each hydrated
\* with its artists, genres and label.
Search(db, uid, query, artist, genre, label, location) ==
    LET rows == Distinct(SearchJoin(db, uid, query, artist, genre, label, location))
        recs == {Hydrate(db, r) : r \in DOMAIN rows}
    IN [x \in recs |-> rows[CHOOSE r \in DOMAIN rows : r.id = x.ID]]

---------------------------------------------------------------------------
(* The inputs the calls are tried with. *)

\* Scalar fields of a submitted record: two samples.
ScalarsKb ==
    [Title |-> <<"K", "b">>, ReleaseYear |-> 1959,
     CatalogNumber |-> <<"C", "1">>, Condition |-> <<"M">>, Notes |-> <<>>,
     CoverImageURL |-> <<>>, StorageLocation |-> <<"A">>]
ScalarsAb ==
    [Title |-> <<"a", "b">>, ReleaseYear |-> 0,
     CatalogNumber |-> <<>>, Condition |-> <<>>, Notes |-> <<"k">>,
     CoverImageURL |-> <<"u">>, StorageLocation |-> <<>>]
Scalars == {ScalarsKb, ScalarsAb}

Art(id, role) == [ID |-> id, Role |-> role]
Gen(id) == [ID |-> id]
Trk(title, duration, position) ==
    [Title |-> title, Duration |-> duration, Position |-> position]

\* Related entities of a submitted record. Artists 1, 2, genres 1, 2 and
\* label 1 exist; artist 3, genre 3 and label 2 never do.
RelNone == [Artists |-> <<>>, Genres |-> <<>>, LabelID |-> 0, Tracks |-> <<>>]
RelOne ==
    [Artists |-> <<Art(1, "lead")>>, Genres |-> <<Gen(1)>>, LabelID |-> 1,
     Tracks |-> <<Trk("One", "3:45", "A1")>>]
RelTwo ==
    [Artists |-> <<Art(2, ""), Art(1, "guest")>>, Genres |-> <<Gen(2), Gen(1)>>,
     LabelID |-> 0,
     Tracks |-> <<Trk("Two", "", "B1"), Trk("One", "3:45", "A1")>>]
RelMissingArtist ==
    [Artists |-> <<Art(1, "lead"), Art(3, "lead")>>, Genres |-> <<Gen(1)>>,
     LabelID |-> 1, Tracks |-> <<Trk("One", "3:45", "A1")>>]
RelMissingGenre ==
    [Artists |-> <<Art(1, "lead")>>, Genres |-> <<Gen(3)>>, LabelID |-> 0,
     Tracks |-> <<Trk("One", "3:45", "A1")>>]
RelMissingLabel ==
    [Artists |-> <<Art(1, "lead")>>, Genres |-> <<Gen(1)>>, LabelID |-> 2,
     Tracks |-> <<Trk("One", "3:45", "A1")>>]
RelSameArtistTwice ==
    [Artists |-> <<Art(1, "lead"), Art(1, "guest")>>, Genres |-> <<Gen(1)>>,
     LabelID |-> 1, Tracks |-> <<Trk("One", "3:45", "A1")>>]
RelSameGenreTwice ==
    [Artists |-> <<Art(1, "lead")>>, Genres |-> <<Gen(1), Gen(1)>>,
     LabelID |-> 0, Tracks |-> <<>>]
Relations ==
    {RelNone, RelOne, RelTwo, RelMissingArtist, RelMissingGenre,
     RelMissingLabel, RelSameArtistTwice, RelSameGenreTwice}

\* A submitted models.Record.
MakeRecord(id, uid, sc, rel) ==
    [ID |-> id, UserID |-> uid, Title |-> sc.Title,
     ReleaseYear |-> sc.ReleaseYear, CatalogNumber |-> sc.CatalogNumber,
     Condition |-> sc.Condition, Notes |-> sc.Notes,
     CoverImageURL |-> sc.CoverImageURL,
     StorageLocation |-> sc.StorageLocation, LabelID |-> rel.LabelID,
     Artists |-> rel.Artists, Genres |-> rel.Genres, Tracks |-> rel.Tracks]

\* Records submitted to Create (no id yet).
CreateInputs == {MakeRecord(0, u, sc, rel) : u \in Users, sc \in Scalars, rel \in Relations}

\* One sample by either user.
OwnershipCreateInputs == {MakeRecord(0, u, ScalarsKb, RelOne) : u \in Users}

\* Records submitted to Update, by either user for every id.
UpdateInputs ==
    {MakeRecord(id, u, ScalarsAb, rel) :
        id \in 1..MaxRecordID, u \in Users,
        rel \in {RelNone, RelTwo, RelMissingArtist, RelMissingGenre,
                 RelMissingLabel, RelSameArtistTwice}}

\* Submitted artists, genres and labels (Update).
EntityInputs ==
    {[ID |-> id, UserID |-> u, Name |-> n, Description |-> d] :
        id \in 1..3, u \in Users, n \in {<<"C", "o">>}, d \in {<<"d">>}}

\* What a GetByID in one statement would return for the record each
\* reader in flight is reading, added to what it would have returned since
\* that reader began.
Observe(db) ==
    [p \in Procs |->
        IF inflight[p].op = "GetByID"
        THEN seen[p] \cup {GetByID(db, inflight[p].req.ID)}
        ELSE seen[p]]

\* The tables of db become the tables of the next state.
Store(db) ==
    /\ artists' = db.artists
    /\ genres' = db.genres
    /\ labels' = db.labels
    /\ records' = db.records
    /\ artist_record' = db.artist_record
    /\ genre_record' = db.genre_record
    /\ tracks' = db.tracks
    /\ records_id_seq' = db.records_id_seq
    /\ tracks_id_seq' = db.tracks_id_seq
    /\ artists_id_seq' = db.artists_id_seq
    /\ seen' = Observe(db)

---------------------------------------------------------------------------
(* The state machine. *)

NoArg == [none |-> TRUE]
NoVal == [none |-> TRUE]

\* bcrypt.GenerateFromPassword and CompareHashAndPassword: the hash of a
\* password is no password, and only the password it was made from matches.
Hash(password) == <<"bcrypt", password>>
CompareHashAndPassword(hash, password) == hash = Hash(password)

\* A request process between requests.
Idle == [op |-> "idle", req |-> NoArg]

Init ==
    /\ artists = {[id |-> 1, name |-> <<"M", "i">>,
                   description |-> NullString(<<"t">>), user_id |-> 1],
                  [id |-> 2, name |-> <<"C", "o">>,
                   description |-> NullString(<<>>), user_id |-> 2]}
    /\ genres = {[id |-> 1, name |-> <<"J", "a">>,
                  description |-> NullString(<<>>), user_id |-> 1],
                 [id |-> 2, name |-> <<"B", "o">>,
                  description |-> NullString(<<"h">>), user_id |-> 2]}
    /\ labels = {[id |-> 1, name |-> <<"B", "n">>,
                  description |-> NullString(<<>>), user_id |-> 1]}
    /\ records = {}
    /\ artist_record = {}
    /\ genre_record = {}
    /\ tracks = {}
    /\ records_id_seq = 1
    /\ tracks_id_seq = 1
    /\ sessions = {}
    /\ sessions_id_seq = 1
    /\ now = 0
    /\ wasExpired = {}
    /\ artists_id_seq = 3
    /\ users = {[id |-> 1, email |-> "a@x", password_hash |-> Hash("pw1"),
                 name |-> "Ann"],
                [id |-> 2, email |-> "b@x", password_hash |-> Hash("pw2"),
                 name |-> "Bo"]}
    /\ users_id_seq = 3
    /\ inflight = [p \in Procs |-> Idle]
    /\ seen = [p \in Procs |-> {}]
    /\ ret = [op |-> "none", arg |-> NoArg, err |-> "", val |-> NoVal]

\* The sequences have values left for a call that inserts rec.
SeqsLeft(rec) ==
    /\ records_id_seq <= MaxRecordID
    /\ tracks_id_seq + Len(rec.Tracks) - 1 <= MaxTrackID

\* RecordService.Create(record)
RecordCreate(rec) ==
    /\ SeqsLeft(rec)
    /\ LET r == CreateTx(DB, rec)
       IN /\ Store(r.db)
          /\ ret' = [op |-> "RecordCreate", arg |-> rec, err |-> r.err,
                     val |-> [ID |-> r.id]]
    /\ UNCHANGED <<sessionVars, userVars>>

\* RecordService.Update(record)
RecordUpdate(rec) ==
    /\ tracks_id_seq + Len(rec.Tracks) - 1 <= MaxTrackID
    /\ LET r == UpdateTx(DB, rec)
       IN /\ Store(r.db)
          /\ ret' = [op |-> "RecordUpdate", arg |-> rec, err |-> r.err,
                     val |-> NoVal]
    /\ UNCHANGED <<sessionVars, userVars>>

\* RecordService.Delete(id)
RecordDelete(id) ==
    /\ Store(DeleteRecord(DB, id))
    /\ ret' = [op |-> "RecordDelete", arg |-> [ID |-> id], err |-> "",
               val |-> NoVal]
    /\ UNCHANGED <<sessionVars, userVars>>

\* ArtistService.Update(artist)
ArtistUpdate(e) ==
    /\ LET r == ArtistUpdateOp(DB, e)
       IN /\ Store(r.db)
          /\ ret' = [op |-> "ArtistUpdate", arg |-> e, err |-> r.err, val |-> NoVal]
    /\ UNCHANGED <<sessionVars, userVars>>

\* GenreService.Update(genre)
GenreUpdate(e) ==
    /\ LET r == GenreUpdateOp(DB, e)
       IN /\ Store(r.db)
          /\ ret' = [op |-> "GenreUpdate", arg |-> e, err |-> r.err, val |-> NoVal]
    /\ UNCHANGED <<sessionVars, userVars>>

\* LabelService.Update(label)
LabelUpdate(e) ==
    /\ LET r == LabelUpdateOp(DB, e)
       IN /\ Store(r.db)
          /\ ret' = [op |-> "LabelUpdate", arg |-> e, err |-> r.err, val |-> NoVal]
    /\ UNCHANGED <<sessionVars, userVars>>

\* Records are created and deleted.
Next ==
    \/ \E rec \in CreateInputs : RecordCreate(rec)
    \/ \E id \in 1..MaxRecordID : RecordDelete(id)

Spec == Init /\ [][Next]_vars

\* Records are created from one sample and updated.
NextUpdate ==
    \/ \E rec \in OwnershipCreateInputs : RecordCreate(rec)
    \/ \E rec \in UpdateInputs : RecordUpdate(rec)

SpecUpdate == Init /\ [][NextUpdate]_vars

---------------------------------------------------------------------------
(* Claims about the record aggregate (specifications Spec, SpecUpdate). *)

\* The ids a submitted record refers to.
ArtistIDsOf(rec) == {rec.Artists[i].ID : i \in 1..Len(rec.Artists)}
GenreIDsOf(rec) == {rec.Genres[i].ID : i \in 1..Len(rec.Genres)}

\* rec refers to an artist, a genre or a non-zero label that is not there.
RefersToMissing(rec) ==
    \/ ~(ArtistIDsOf(rec) \subseteq {a.id : a \in artists})
    \/ ~(GenreIDsOf(rec) \subseteq {g.id : g \in genres})
    \/ (rec.LabelID # 0 /\ rec.LabelID \notin {l.id : l \in labels})

\* C1: RecordService.Create of a record that refers to a missing artist,
\* genre or non-zero label returns an error and leaves records,
\* artist_record, genre_record and tracks exactly as they were.
C1_CreateMissingReferenceRollsBack ==
    [][(ret'.op = "RecordCreate" /\ RefersToMissing(ret'.arg))
         => /\ ret'.err # ""
            /\ UNCHANGED <<records, artist_record, genre_record, tracks>>]_vars

\* A Create refused for its missing label, in a database that holds rows.
C1_Witness ==
    /\ ret.op = "RecordCreate"
    /\ ret.err = "label does not exist"
    /\ records # {} /\ artist_record # {} /\ tracks # {}

\* What GetByID returns, reduced to what a submitted record carries.
RolesOf(got) == {[ID |-> a.ID, Role |-> a.Role] : a \in got.Artists}
GenresOf(got) == {[ID |-> g.ID] : g \in got.Genres}
TracksOf(got) ==
    {[Title |-> t.Title, Duration |-> t.Duration, Position |-> t.Position] :
        t \in got.Tracks}
LabelOf(got) == {l.ID : l \in got.Label}
SeqToSet(list) == {list[i] : i \in 1..Len(list)}

C4_DeleteCascades ==
    [][ret'.op = "RecordDelete" =>
         LET id == ret'.arg.ID
         IN /\ ret'.err = ""
            /\ records' = {r \in records : r.id # id}
            /\ tracks' = {t \in tracks : t.record_id # id}
            /\ artist_record' = {x \in artist_record : x.record_id # id}
            /\ genre_record' = {x \in genre_record : x.record_id # id}
            /\ \A t \in tracks' \cup artist_record' \cup genre_record' :
                  t.record_id # id]_vars

\* A Delete after which the other record still has its tracks and
\* associations, all tracks ids having been handed out.
C4_Witness ==
    /\ ret.op = "RecordDelete"
    /\ ~RecordExists(DB, ret.arg.ID)
    /\ records_id_seq > ret.arg.ID
    /\ Cardinality(records) = 1
    /\ tracks # {} /\ artist_record # {} /\ genre_record # {}
    /\ Cardinality(tracks) < tracks_id_seq - 1

\* C7: after a successful Update of a record with artist list A and genre
\* list G, GetByID returns exactly the artists of A with their roles and
\* exactly the genres of G; with an empty A, no artists.
C7_UpdateReplacesAssociations ==
    (ret.op = "RecordUpdate" /\ ret.err = "") =>
        LET got == GetByID(DB, ret.arg.ID)
        IN /\ got.err = ""
           /\ RolesOf(got.rec) = SeqToSet(ret.arg.Artists)
           /\ GenresOf(got.rec) = SeqToSet(ret.arg.Genres)
           /\ (ret.arg.Artists = <<>> => got.rec.Artists = {})

\* An Update with no artists of a record, while artist_record rows of the
\* other record remain.
C7_Witness ==
    /\ ret.op = "RecordUpdate" /\ ret.err = ""
    /\ ret.arg.Artists = <<>>
    /\ artist_record # {}

---------------------------------------------------------------------------
(* The updates of the four services side by side (specification            *)
(* SpecOwnership): records are created from one sample and updated to      *)
(* another, artists, genres and labels are updated by either user.         *)

OwnershipUpdateInputs ==
    {MakeRecord(id, u, ScalarsAb, RelNone) : id \in 1..MaxRecordID, u \in Users}

NextOwnership ==
    \/ \E rec \in OwnershipCreateInputs : RecordCreate(rec)
    \/ \E rec \in OwnershipUpdateInputs : RecordUpdate(rec)
    \/ \E e \in EntityInputs : ArtistUpdate(e)
    \/ \E e \in EntityInputs : GenreUpdate(e)
    \/ \E e \in EntityInputs : LabelUpdate(e)

SpecOwnership == Init /\ [][NextOwnership]_vars

\* The table an update call works on.
TableOf(op) ==
    CASE op = "ArtistUpdate" -> artists
      [] op = "GenreUpdate" -> genres
      [] op = "LabelUpdate" -> labels
      [] op = "RecordUpdate" -> records

UpdateOps == {"ArtistUpdate", "GenreUpdate", "LabelUpdate", "RecordUpdate"}

\* The submitted entity names a row that exists and belongs to another user.
OwnedByAnother(op, e) ==
    \E x \in TableOf(op) : x.id = e.ID /\ x.user_id # e.UserID

\* C3: Update of an artist, genre, label or record whose row exists with
\* another user_id than the submitted one returns a not-found error and
\* changes no row: not the entity's, nor any artist_record, genre_record
\* or tracks row.
C3_UpdateOfForeignRowRefused ==
    [][(ret'.op \in UpdateOps /\ OwnedByAnother(ret'.op, ret'.arg))
         => /\ ret'.err \in {"sql: no rows",
                             "record not found or does not belong to user"}
            /\ UNCHANGED tables]_vars

\* A refused update of an existing record of the other user that has
\* associations and tracks.
C3_Witness ==
    /\ ret.op = "RecordUpdate"
    /\ ret.err = "record not found or does not belong to user"
    /\ \E r \in records : r.id = ret.arg.ID /\ r.user_id # ret.arg.UserID
    /\ \E x \in artist_record : x.record_id = ret.arg.ID
    /\ \E t \in tracks : t.record_id = ret.arg.ID

---------------------------------------------------------------------------
(* SessionService: the server-held sessions (specification SpecSession).   *)
(* The 32 random bytes of a token are a fresh value; the model writes the  *)
(* n-th token as n.                                                        *)

\* Durations passed to Create and Refresh.
Durations == {1, 2}

\* SessionService.Create: the row inserted and the Session returned.
\* Scan(&sessionID, &expiresAt, &expiresAt) puts created_at and then
\* updated_at, both the time of the insert, into expiresAt.
CreateSessionOp(sess, id, clock, userID, duration) ==
    LET expiresAt == clock + duration
        row == [id |-> id, user_id |-> userID, token |-> id,
                expires_at |-> expiresAt]
        scanned == clock
    IN [err |-> "", sessions |-> sess \cup {row},
        val |-> [ID |-> id, UserID |-> userID, Token |-> id,
                 ExpiresAt |-> scanned]]

\* SessionService.Delete: DELETE FROM sessions WHERE id = $1
DeleteSessionOp(sess, id) == {s \in sess : s.id # id}

NoSession == [ID |-> 0]

\* GetByToken that returns the error and leaves the expired row.
GetByTokenOp_NoPurge(sess, clock, token) ==
    LET found == {s \in sess : s.token = token}
    IN IF found = {} THEN [err |-> "sql: no rows", sessions |-> sess, val |-> NoSession]
       ELSE LET s == CHOOSE x \in found : TRUE
            IN IF clock > s.expires_at
               THEN [err |-> "session expired", sessions |-> sess, val |-> NoSession]
               ELSE [err |-> "", sessions |-> sess,
                     val |-> [ID |-> s.id, UserID |-> s.user_id,
                              Token |-> s.token, ExpiresAt |-> s.expires_at]]

\* SessionService.GetByToken: [err, sessions, val]; an expired row is
\* deleted on the way out.
GetByTokenOp(sess, clock, token) ==
    LET found == {s \in sess : s.token = token}
    IN IF found = {} THEN [err |-> "sql: no rows", sessions |-> sess, val |-> NoSession]
       ELSE LET s == CHOOSE x \in found : TRUE
            IN IF clock > s.expires_at
               THEN [err |-> "session expired",
                     sessions |-> DeleteSessionOp(sess, s.id), val |-> NoSession]
               ELSE [err |-> "", sessions |-> sess,
                     val |-> [ID |-> s.id, UserID |-> s.user_id,
                              Token |-> s.token, ExpiresAt |-> s.expires_at]]

\* SessionService.Refresh: UPDATE sessions SET expires_at = $1 WHERE token = $2
RefreshOp(sess, clock, token, duration) ==
    {IF s.token = token THEN [s EXCEPT !.expires_at = clock + duration] ELSE s :
        s \in sess}

\* SessionService.DeleteByToken
DeleteByTokenOp(sess, token) == {s \in sess : s.token # token}

\* DeleteByUserID with the WHERE clause on id in place of user_id.
DeleteByUserIDOp_ByID(sess, userID) == {s \in sess : s.id # userID}

\* SessionService.DeleteByUserID
DeleteByUserIDOp(sess, userID) == {s \in sess : s.user_id # userID}

\* CleanExpiredSessions with expires_at <= NOW().
CleanExpiredOp_Inclusive(sess, clock) == {s \in sess : ~(s.expires_at <= clock)}

\* SessionService.CleanExpiredSessions: DELETE ... WHERE expires_at < NOW()
CleanExpiredOp(sess, clock) == {s \in sess : ~(s.expires_at < clock)}

\* The tokens known to have been expired once the step is taken.
Remember ==
    wasExpired' = wasExpired \cup {s.token : s \in {x \in sessions' : now' > x.expires_at}}

SessionCreate(userID, duration) ==
    /\ sessions_id_seq <= MaxSessionID
    /\ LET r == CreateSessionOp(sessions, sessions_id_seq, now, userID, duration)
       IN /\ sessions' = r.sessions
          /\ ret' = [op |-> "SessionCreate",
                     arg |-> [UserID |-> userID, Duration |-> duration],
                     err |-> r.err, val |-> r.val]
    /\ sessions_id_seq' = sessions_id_seq + 1
    /\ now' = now
    /\ Remember
    /\ UNCHANGED <<tables, seqs, seen, userVars>>

GetByToken(token) ==
    /\ LET r == GetByTokenOp(sessions, now, token)
       IN /\ sessions' = r.sessions
          /\ ret' = [op |-> "GetByToken", arg |-> [Token |-> token],
                     err |-> r.err, val |-> r.val]
    /\ now' = now
    /\ Remember
    /\ UNCHANGED <<tables, seqs, seen, sessions_id_seq, userVars>>

Refresh(token, duration) ==
    /\ sessions' = RefreshOp(sessions, now, token, duration)
    /\ ret' = [op |-> "Refresh", arg |-> [Token |-> token, Duration |-> duration],
               err |-> "", val |-> NoVal]
    /\ now' = now
    /\ Remember
    /\ UNCHANGED <<tables, seqs, seen, sessions_id_seq, userVars>>

SessionDelete(id) ==
    /\ sessions' = DeleteSessionOp(sessions, id)
    /\ ret' = [op |-> "SessionDelete", arg |-> [ID |-> id], err |-> "", val |-> NoVal]
    /\ now' = now
    /\ Remember
    /\ UNCHANGED <<tables, seqs, seen, sessions_id_seq, userVars>>

DeleteByToken(token) ==
    /\ sessions' = DeleteByTokenOp(sessions, token)
    /\ ret' = [op |-> "DeleteByToken", arg |-> [Token |-> token], err |-> "",
               val |-> NoVal]
    /\ now' = now
    /\ Remember
    /\ UNCHANGED <<tables, seqs, seen, sessions_id_seq, userVars>>

DeleteByUserID(userID) ==
    /\ sessions' = DeleteByUserIDOp(sessions, userID)
    /\ ret' = [op |-> "DeleteByUserID", arg |-> [UserID |-> userID], err |-> "",
               val |-> NoVal]
    /\ now' = now
    /\ Remember
    /\ UNCHANGED <<tables, seqs, seen, sessions_id_seq, userVars>>

CleanExpiredSessions ==
    /\ sessions' = CleanExpiredOp(sessions, now)
    /\ ret' = [op |-> "CleanExpiredSessions", arg |-> NoArg, err |-> "",
               val |-> NoVal]
    /\ now' = now
    /\ Remember
    /\ UNCHANGED <<tables, seqs, seen, sessions_id_seq, userVars>>

\* Time passes.
Tick ==
    /\ now < MaxTime
    /\ now' = now + 1
    /\ UNCHANGED <<tables, seqs, seen, sessions, sessions_id_seq, userVars, ret>>
    /\ Remember

NextSession ==
    \/ \E u \in Users, d \in Durations : SessionCreate(u, d)
    \/ \E t \in 1..MaxSessionID : GetByToken(t)
    \/ \E t \in 1..MaxSessionID, d \in Durations : Refresh(t, d)
    \/ \E id \in 1..MaxSessionID : SessionDelete(id)
    \/ \E t \in 1..MaxSessionID : DeleteByToken(t)
    \/ \E u \in Users : DeleteByUserID(u)
    \/ CleanExpiredSessions
    \/ Tick

SpecSession == Init /\ [][NextSession]_vars

\* The step is a call of GetByToken (Tick is the one step that moves now and
\* the one step that leaves ret alone).
IsGetByToken == ret'.op = "GetByToken" /\ now' = now

\* C5: GetByToken on a token whose row has expires_at earlier than now
\* returns an error and removes that row; GetByToken on a token that has no
\* row (as on the second call) returns an error and leaves sessions as it is.
C5_GetByTokenPurgesExpired ==
    [][IsGetByToken =>
         LET t == ret'.arg.Token
         IN /\ (\E s \in sessions : s.token = t /\ s.expires_at < now)
                 => /\ ret'.err # "" /\ ret'.val = NoSession
                    /\ sessions' = {s \in sessions : s.token # t}
            /\ (~\E s \in sessions : s.token = t)
                 => /\ ret'.err # "" /\ ret'.val = NoSession
                    /\ sessions' = sessions]_vars

\* GetByToken has just found a session expired and removed its row, while
\* the row of another session stays.
C5_Witness ==
    /\ ret.op = "GetByToken" /\ ret.err = "session expired"
    /\ ret.arg.Token \in wasExpired
    /\ ~\E s \in sessions : s.token = ret.arg.Token
    /\ sessions # {}

\* C6: once now has passed the expires_at of a session, GetByToken never
\* returns that session again.
C6_ExpiredIsTerminal ==
    [][(IsGetByToken /\ ret'.arg.Token \in wasExpired) => ret'.err # ""]_vars

---------------------------------------------------------------------------
(* RecordService.Search (specification SpecSearch). *)

\* RecordService.Search(userID, query, artist, genre, label, location)
RecordSearch(uid, query, artist, genre, label, location) ==
    /\ ret' = [op |-> "Search",
               arg |-> [UserID |-> uid, Query |-> query, Artist |-> artist,
                        Genre |-> genre, Label |-> label, Location |-> location],
               err |-> "",
               val |-> [Records |-> Search(DB, uid, query, artist, genre,
                                           label, location)]]
    /\ UNCHANGED <<tables, seqs, seen, sessionVars, userVars>>

\* The search terms the calls are tried with.
QueryTerms == {<<>>, <<"k">>, <<"_">>}
ArtistTerms == {<<>>, <<"m">>}
GenreTerms == {<<>>, <<"j">>}
LabelTerms == {<<>>, <<"b">>}
LocationTerms == {<<>>, <<"a">>}

SearchCreateInputs ==
    {MakeRecord(0, u, sc, rel) :
        u \in Users, sc \in Scalars, rel \in {RelNone, RelOne, RelTwo}}

\* The parameter combinations: every parameter alone with each of its
\* terms, all empty, all set, and query with each other parameter.
SearchCalls ==
    {<<q, <<>>, <<>>, <<>>, <<>> >> : q \in QueryTerms}
    \cup {<<<<>>, a, <<>>, <<>>, <<>> >> : a \in ArtistTerms}
    \cup {<<<<>>, <<>>, g, <<>>, <<>> >> : g \in GenreTerms}
    \cup {<<<<>>, <<>>, <<>>, l, <<>> >> : l \in LabelTerms}
    \cup {<<<<>>, <<>>, <<>>, <<>>, s>> : s \in LocationTerms}
    \cup {<<<<"k">>, <<"m">>, <<>>, <<>>, <<>> >>,
          <<<<"k">>, <<>>, <<"j">>, <<>>, <<>> >>,
          <<<<"k">>, <<>>, <<>>, <<"b">>, <<>> >>,
          <<<<"k">>, <<>>, <<>>, <<>>, <<"a">> >>,
          <<<<>>, <<"m">>, <<"j">>, <<>>, <<>> >>,
          <<<<"k">>, <<"m">>, <<"j">>, <<"b">>, <<"a">> >>}

NextSearch ==
    \/ \E rec \in SearchCreateInputs : RecordCreate(rec)
    \/ \E u \in Users, c \in SearchCalls :
          RecordSearch(u, c[1], c[2], c[3], c[4], c[5])

SpecSearch == Init /\ [][NextSearch]_vars

\* x is a substring of text, letters without regard to case.
Contains(text, x) ==
    \E i \in 0..(Len(text) - Len(x)) :
        \A j \in 1..Len(x) : Lower(text[i + j]) = Lower(x[j])

ContainsNull(col, x) == col.Valid /\ Contains(col.String, x)

\* The row r of records satisfies every non-empty parameter.
Satisfies(r, uid, query, artist, genre, label, location) ==
    /\ r.user_id = uid
    /\ query # <<>> =>
          \/ Contains(r.title, query)
          \/ ContainsNull(r.notes, query)
          \/ ContainsNull(r.catalog_number, query)
    /\ artist # <<>> =>
          \E ar \in artist_record, a \in artists :
              ar.record_id = r.id /\ a.id = ar.artist_id /\ Contains(a.name, artist)
    /\ genre # <<>> =>
          \E gr \in genre_record, g \in genres :
              gr.record_id = r.id /\ g.id = gr.genre_id /\ Contains(g.name, genre)
    /\ label # <<>> =>
          \E l \in labels :
              r.label_id.Valid /\ l.id = r.label_id.Int32 /\ Contains(l.name, label)
    /\ location # <<>> => ContainsNull(r.storage_location, location)

\* The ids of the records a Search returned.
ReturnedIDs == {x.ID : x \in DOMAIN ret.val.Records}

\* C8: Search returns exactly the records of the user that satisfy every
\* non-empty parameter as a case-insensitive substring. (Search leaves the
\* tables alone and every step of SpecSearch sets ret, so the tables of a
\* state with ret.op = "Search" are those the call saw.)
C8_SearchReturnsExactlyMatches ==
    ret.op = "Search" =>
        LET a == ret.arg
        IN ReturnedIDs =
             {r.id : r \in {x \in records :
                 Satisfies(x, a.UserID, a.Query, a.Artist, a.Genre, a.Label,
                           a.Location)}}

\* C9: every record of a Search result occurs in it once, and a Search with
\* all five parameters empty returns every record of the user.
C9_SearchAllOnceEach ==
    ret.op = "Search" =>
        LET a == ret.arg
            res == ret.val.Records
        IN /\ \A x \in DOMAIN res : res[x] = 1
           /\ \A x, y \in DOMAIN res : x.ID = y.ID => x = y
           /\ (a.Query = <<>> /\ a.Artist = <<>> /\ a.Genre = <<>>
               /\ a.Label = <<>> /\ a.Location = <<>>)
                 => ReturnedIDs = {r.id : r \in {x \in records : x.user_id = a.UserID}}

\* A Search with all parameters empty that returned two records of the
\* user, one of them with two artists and two genres.
C9_Witness ==
    /\ ret.op = "Search"
    /\ ret.arg.Query = <<>> /\ ret.arg.Artist = <<>> /\ ret.arg.Genre = <<>>
    /\ ret.arg.Label = <<>> /\ ret.arg.Location = <<>>
    /\ Cardinality(DOMAIN ret.val.Records) = 2
    /\ \E x \in DOMAIN ret.val.Records :
          Cardinality(x.Artists) = 2 /\ Cardinality(x.Genres) = 2

---------------------------------------------------------------------------
(* RecordHandler: the record endpoints (specification SpecAPI). The caller *)
(* is the user id the auth middleware put in the request context; err of  *)
(* ret is the text http.Error writes as the response body.                *)

Response(status, recs) == [Status |-> status, Records |-> recs]

\* RecordHandler.CreateRecord: the body's UserID is overwritten with the
\* caller; the response encodes the submitted record back.
CreateRecord(caller, body) ==
    LET record == [body EXCEPT !.UserID = caller]
    IN /\ SeqsLeft(record)
       /\ LET r == CreateTx(DB, record)
          IN /\ Store(r.db)
             /\ ret' = [op |-> "CreateRecord",
                        arg |-> [Caller |-> caller, Body |-> body],
                        err |-> IF r.err = "" THEN "" ELSE "Error creating record",
                        val |-> Response(IF r.err = "" THEN 201 ELSE 500, {})]
       /\ UNCHANGED <<sessionVars, userVars>>

\* RecordHandler.UpdateRecord: GetByID and the ownership check come before
\* the body is decoded; then ID and UserID are set and Update is called.
UpdateRecord(caller, id, body) ==
    LET existing == GetByID(DB, id)
        record == [body EXCEPT !.ID = id, !.UserID = caller]
        arg == [Caller |-> caller, ID |-> id, Body |-> body]
    IN /\ tracks_id_seq + Len(body.Tracks) - 1 <= MaxTrackID
       /\ IF existing.err # ""
          THEN /\ ret' = [op |-> "UpdateRecord", arg |-> arg,
                          err |-> "Record not found", val |-> Response(404, {})]
               /\ UNCHANGED <<tables, seqs, seen>>
          ELSE IF existing.rec.Fields.UserID # caller
          THEN /\ ret' = [op |-> "UpdateRecord", arg |-> arg,
                          err |-> "Unauthorized", val |-> Response(401, {})]
               /\ UNCHANGED <<tables, seqs, seen>>
          ELSE LET r == UpdateTx(DB, record)
               IN /\ Store(r.db)
                  /\ ret' = [op |-> "UpdateRecord", arg |-> arg,
                             err |-> IF r.err = "" THEN "" ELSE "Error updating record",
                             val |-> Response(IF r.err = "" THEN 200 ELSE 500, {})]
       /\ UNCHANGED <<sessionVars, userVars>>

\* RecordHandler.GetRecord
GetRecord(caller, id) ==
    LET r == GetByID(DB, id)
        arg == [Caller |-> caller, ID |-> id]
    IN /\ ret' = IF r.err # ""
                 THEN [op |-> "GetRecord", arg |-> arg, err |-> "Record not found",
                       val |-> Response(404, {})]
                 ELSE IF r.rec.Fields.UserID # caller
                 THEN [op |-> "GetRecord", arg |-> arg, err |-> "Unauthorized",
                       val |-> Response(401, {})]
                 ELSE [op |-> "GetRecord", arg |-> arg, err |-> "",
                       val |-> Response(200, {r.rec})]
       /\ UNCHANGED <<tables, seqs, seen, sessionVars, userVars>>

\* RecordHandler.ListRecords
ListRecords(caller) ==
    /\ ret' = [op |-> "ListRecords", arg |-> [Caller |-> caller], err |-> "",
               val |-> Response(200, ListByUserID(DB, caller))]
    /\ UNCHANGED <<tables, seqs, seen, sessionVars, userVars>>

\* RecordHandler.SearchRecords
SearchRecords(caller, query, artist, genre, label, location) ==
    /\ ret' = [op |-> "SearchRecords",
               arg |-> [Caller |-> caller, Query |-> query, Artist |-> artist,
                        Genre |-> genre, Label |-> label, Location |-> location],
               err |-> "",
               val |-> Response(200, DOMAIN Search(DB, caller, query, artist,
                                                   genre, label, location))]
    /\ UNCHANGED <<tables, seqs, seen, sessionVars, userVars>>

\* Request bodies: the UserID a body carries is the caller's to choose.
Bodies ==
    {MakeRecord(0, u, ScalarsKb, rel) : u \in Users, rel \in {RelNone, RelOne, RelTwo}}

NextAPI ==
    \/ \E c \in Users, b \in Bodies : CreateRecord(c, b)
    \/ \E c \in Users, id \in 1..MaxRecordID, b \in Bodies : UpdateRecord(c, id, b)
    \/ \E c \in Users, id \in 1..MaxRecordID : GetRecord(c, id)
    \/ \E c \in Users : ListRecords(c)
    \/ \E c \in Users, a \in ArtistTerms : SearchRecords(c, <<>>, a, <<>>, <<>>, <<>>)

SpecAPI == Init /\ [][NextAPI]_vars

RecordEndpoints ==
    {"CreateRecord", "UpdateRecord", "GetRecord", "ListRecords", "SearchRecords"}

\* The owner of the row with this id in a table.
OwnerOf(rows, id) == (CHOOSE x \in rows : x.id = id).user_id

\* C10: no record is linked to an artist, genre or label of another user,
\* and no response of a record endpoint carries an artist, genre or label
\* whose UserID is not the caller.
C10_NoForeignEntityThroughRecords ==
    /\ \A ar \in artist_record :
          OwnerOf(artists, ar.artist_id) = OwnerOf(records, ar.record_id)
    /\ \A gr \in genre_record :
          OwnerOf(genres, gr.genre_id) = OwnerOf(records, gr.record_id)
    /\ \A r \in records :
          r.label_id.Valid => OwnerOf(labels, r.label_id.Int32) = r.user_id
    /\ ret.op \in RecordEndpoints =>
          \A rec \in ret.val.Records :
              \A e \in rec.Artists \cup rec.Genres \cup rec.Label :
                  e.UserID = ret.arg.Caller

---------------------------------------------------------------------------
(* ArtistService, GenreService, LabelService: GetByID and Delete.          *)

NoEntity == [ID |-> 0]

\* GetByID of the three services: SELECT ... FROM <table> WHERE id = $1
EntityGetByID(rows, id) ==
    LET found == {x \in rows : x.id = id}
    IN IF found = {} THEN [err |-> "sql: no rows", val |-> NoEntity]
       ELSE LET x == CHOOSE y \in found : TRUE
            IN [err |-> "",
                val |-> [ID |-> x.id, Name |-> x.name,
                         Description |-> FromNullString(x.description),
                         UserID |-> x.user_id]]

\* DELETE FROM <table> WHERE id = $1 AND user_id = $2: the rows left.
DeleteOwnedRow(rows, id, userID) ==
    {x \in rows : ~(x.id = id /\ x.user_id = userID)}

\* ArtistService.Delete: [err, db]. The result of Exec is dropped; only a
\* failure of the statement is an error. artist_record.artist_id is ON
\* DELETE CASCADE.
ArtistDeleteOp(db, id, userID) ==
    LET kept == DeleteOwnedRow(db.artists, id, userID)
    IN Ok([db EXCEPT !.artists = kept,
                     !.artist_record =
                         {x \in @ : x.artist_id \in {a.id : a \in kept}}])

\* GenreService.Delete: [err, db]; genre_record.genre_id is ON DELETE CASCADE.
GenreDeleteOp(db, id, userID) ==
    LET kept == DeleteOwnedRow(db.genres, id, userID)
    IN Ok([db EXCEPT !.genres = kept,
                     !.genre_record =
                         {x \in @ : x.genre_id \in {g.id : g \in kept}}])

\* The label deleted with records.label_id left as it was.
LabelDeleteOp_NoSetNull(db, id, userID) ==
    Ok([db EXCEPT !.labels = DeleteOwnedRow(db.labels, id, userID)])

\* LabelService.Delete: [err, db]; records.label_id is ON DELETE SET NULL.
LabelDeleteOp(db, id, userID) ==
    LET kept == DeleteOwnedRow(db.labels, id, userID)
    IN Ok([db EXCEPT !.labels = kept,
                     !.records =
                         {IF r.label_id.Valid
                             /\ r.label_id.Int32 \notin {l.id : l \in kept}
                          THEN [r EXCEPT !.label_id = [Valid |-> FALSE, Int32 |-> 0]]
                          ELSE r : r \in @}])

\* ArtistService.Delete(id, userID)
ArtistDelete(id, userID) ==
    /\ LET r == ArtistDeleteOp(DB, id, userID)
       IN /\ Store(r.db)
          /\ ret' = [op |-> "ArtistDelete", arg |-> [ID |-> id, UserID |-> userID],
                     err |-> r.err, val |-> NoVal]
    /\ UNCHANGED <<sessionVars, userVars>>

\* GenreService.Delete(id, userID)
GenreDelete(id, userID) ==
    /\ LET r == GenreDeleteOp(DB, id, userID)
       IN /\ Store(r.db)
          /\ ret' = [op |-> "GenreDelete", arg |-> [ID |-> id, UserID |-> userID],
                     err |-> r.err, val |-> NoVal]
    /\ UNCHANGED <<sessionVars, userVars>>

\* LabelService.Delete(id, userID)
LabelDelete(id, userID) ==
    /\ LET r == LabelDeleteOp(DB, id, userID)
       IN /\ Store(r.db)
          /\ ret' = [op |-> "LabelDelete", arg |-> [ID |-> id, UserID |-> userID],
                     err |-> r.err, val |-> NoVal]
    /\ UNCHANGED <<sessionVars, userVars>>

---------------------------------------------------------------------------
(* The handlers that look a resource up by id and check its owner          *)
(* (specification SpecGuard).                                              *)

\* RecordHandler.DeleteRecord
DeleteRecordHandler(caller, id) ==
    LET existing == GetByID(DB, id)
        arg == [Caller |-> caller, ID |-> id]
    IN /\ IF existing.err # ""
          THEN /\ ret' = [op |-> "DeleteRecord", arg |-> arg,
                          err |-> "Record not found", val |-> Response(404, {})]
               /\ UNCHANGED <<tables, seqs, seen>>
          ELSE IF existing.rec.Fields.UserID # caller
          THEN /\ ret' = [op |-> "DeleteRecord", arg |-> arg,
                          err |-> "Unauthorized", val |-> Response(401, {})]
               /\ UNCHANGED <<tables, seqs, seen>>
          ELSE /\ Store(DeleteRecord(DB, id))
               /\ ret' = [op |-> "DeleteRecord", arg |-> arg, err |-> "",
                          val |-> Response(204, {})]
       /\ UNCHANGED <<sessionVars, userVars>>

\* The lookup without the owner check.
OwnerCheck_NoOwner(rows, id, caller, notFound) ==
    LET found == EntityGetByID(rows, id)
    IN IF found.err # "" THEN [status |-> 404, body |-> notFound, val |-> NoEntity]
       ELSE [status |-> 0, body |-> "", val |-> found.val]

\* The lookup and the owner check the artist, genre and label handlers
\* start with: the status and body they answer with, status 0 to go on.
OwnerCheck(rows, id, caller, notFound) ==
    LET found == EntityGetByID(rows, id)
    IN IF found.err # "" THEN [status |-> 404, body |-> notFound, val |-> NoEntity]
       ELSE IF found.val.UserID # caller
       THEN [status |-> 401, body |-> "Unauthorized", val |-> NoEntity]
       ELSE [status |-> 0, body |-> "", val |-> found.val]

\* GetArtist, GetGenre, GetLabel
GetEntity(op, rows, notFound, caller, id) ==
    LET c == OwnerCheck(rows, id, caller, notFound)
    IN /\ ret' = [op |-> op, arg |-> [Caller |-> caller, ID |-> id],
                  err |-> c.body,
                  val |-> IF c.status # 0 THEN Response(c.status, {})
                          ELSE Response(200, {c.val})]
       /\ UNCHANGED <<tables, seqs, seen, sessionVars, userVars>>

GetArtist(caller, id) == GetEntity("GetArtist", artists, "Artist not found", caller, id)
GetGenre(caller, id) == GetEntity("GetGenre", genres, "Genre not found", caller, id)
GetLabel(caller, id) == GetEntity("GetLabel", labels, "Label not found", caller, id)

\* UpdateArtist, UpdateGenre, UpdateLabel: after the check the body gets the
\* id of the path and the caller as UserID, and the service's Update runs.
UpdateEntity(op, rows, notFound, failed, caller, id, body, r) ==
    LET c == OwnerCheck(rows, id, caller, notFound)
        arg == [Caller |-> caller, ID |-> id, Body |-> body]
    IN /\ IF c.status # 0
          THEN /\ ret' = [op |-> op, arg |-> arg, err |-> c.body,
                          val |-> Response(c.status, {})]
               /\ UNCHANGED <<tables, seqs, seen>>
          ELSE /\ Store(r.db)
               /\ ret' = [op |-> op, arg |-> arg,
                          err |-> IF r.err = "" THEN "" ELSE failed,
                          val |-> IF r.err = ""
                                  THEN Response(200, {[body EXCEPT !.ID = id,
                                                                   !.UserID = caller]})
                                  ELSE Response(500, {})]
       /\ UNCHANGED <<sessionVars, userVars>>

UpdateArtist(caller, id, body) ==
    UpdateEntity("UpdateArtist", artists, "Artist not found", "Error updating artist",
                 caller, id, body,
                 ArtistUpdateOp(DB, [body EXCEPT !.ID = id, !.UserID = caller]))
UpdateGenre(caller, id, body) ==
    UpdateEntity("UpdateGenre", genres, "Genre not found", "Error updating genre",
                 caller, id, body,
                 GenreUpdateOp(DB, [body EXCEPT !.ID = id, !.UserID = caller]))
UpdateLabel(caller, id, body) ==
    UpdateEntity("UpdateLabel", labels, "Label not found", "Error updating label",
                 caller, id, body,
                 LabelUpdateOp(DB, [body EXCEPT !.ID = id, !.UserID = caller]))

\* DeleteArtist, DeleteGenre, DeleteLabel
DeleteEntity(op, rows, notFound, caller, id, r) ==
    LET c == OwnerCheck(rows, id, caller, notFound)
        arg == [Caller |-> caller, ID |-> id]
    IN /\ IF c.status # 0
          THEN /\ ret' = [op |-> op, arg |-> arg, err |-> c.body,
                          val |-> Response(c.status, {})]
               /\ UNCHANGED <<tables, seqs, seen>>
          ELSE /\ Store(r.db)
               /\ ret' = [op |-> op, arg |-> arg, err |-> "",
                          val |-> Response(204, {})]
       /\ UNCHANGED <<sessionVars, userVars>>

DeleteArtist(caller, id) ==
    DeleteEntity("DeleteArtist", artists, "Artist not found", caller, id,
                 ArtistDeleteOp(DB, id, caller))
DeleteGenre(caller, id) ==
    DeleteEntity("DeleteGenre", genres, "Genre not found", caller, id,
                 GenreDeleteOp(DB, id, caller))
DeleteLabel(caller, id) ==
    DeleteEntity("DeleteLabel", labels, "Label not found", caller, id,
                 LabelDeleteOp(DB, id, caller))

\* The bodies the update handlers are called with.
EntityBody == [ID |-> 0, UserID |-> 0, Name |-> <<"C", "o">>, Description |-> <<"d">>]
GuardCreateBody == MakeRecord(0, 1, ScalarsKb, RelOne)
GuardUpdateBody == MakeRecord(0, 1, ScalarsAb, RelNone)

\* Artist 1, genre 1 and label 1 belong to user 1 and are what the created
\* records refer to; either user calls every handler.
NextGuard ==
    \/ \E c \in Users : CreateRecord(c, GuardCreateBody)
    \/ \E c \in Users, id \in 1..MaxRecordID : GetRecord(c, id)
    \/ \E c \in Users, id \in 1..MaxRecordID : UpdateRecord(c, id, GuardUpdateBody)
    \/ \E c \in Users, id \in 1..MaxRecordID : DeleteRecordHandler(c, id)
    \/ \E c \in Users : GetArtist(c, 1)
    \/ \E c \in Users : UpdateArtist(c, 1, EntityBody)
    \/ \E c \in Users : DeleteArtist(c, 1)
    \/ \E c \in Users : GetGenre(c, 1)
    \/ \E c \in Users : UpdateGenre(c, 1, EntityBody)
    \/ \E c \in Users : DeleteGenre(c, 1)
    \/ \E c \in Users : GetLabel(c, 1)
    \/ \E c \in Users : UpdateLabel(c, 1, EntityBody)
    \/ \E c \in Users : DeleteLabel(c, 1)

SpecGuard == Init /\ [][NextGuard]_vars

\* The table a guarded handler looks its resource up in.
ResourceOf(op) ==
    CASE op \in {"GetRecord", "UpdateRecord", "DeleteRecord"} -> records
      [] op \in {"GetArtist", "UpdateArtist", "DeleteArtist"} -> artists
      [] op \in {"GetGenre", "UpdateGenre", "DeleteGenre"} -> genres
      [] op \in {"GetLabel", "UpdateLabel", "DeleteLabel"} -> labels

GuardedOps ==
    {"GetRecord", "UpdateRecord", "DeleteRecord", "GetArtist", "UpdateArtist",
     "DeleteArtist", "GetGenre", "UpdateGenre", "DeleteGenre", "GetLabel",
     "UpdateLabel", "DeleteLabel"}

\* C11: a Get, Update or Delete handler called for an id whose row belongs
\* to another user answers 401 with no data and changes no table; it
\* answers 404 only when no row has that id.
C11_ForeignIsUnauthorizedNotNotFound ==
    [][ret'.op \in GuardedOps =>
         LET rows == ResourceOf(ret'.op)
             id == ret'.arg.ID
             caller == ret'.arg.Caller
         IN /\ (\E x \in rows : x.id = id /\ x.user_id # caller)
                 => /\ ret'.val.Status = 401
                    /\ ret'.err = "Unauthorized"
                    /\ ret'.val.Records = {}
                    /\ UNCHANGED tables
            /\ ret'.val.Status = 404 => ~\E x \in rows : x.id = id]_vars

\* DeleteArtist refused for an artist of the other user that a record is
\* linked to.
C11_Witness ==
    /\ ret.op = "DeleteArtist" /\ ret.val.Status = 401
    /\ \E a \in artists : a.id = ret.arg.ID /\ a.user_id # ret.arg.Caller
    /\ \E ar \in artist_record : ar.artist_id = ret.arg.ID

---------------------------------------------------------------------------
(* Delete of the artist, genre and label services (specification           *)
(* SpecEntityDelete).                                                      *)

NextEntityDelete ==
    \/ \E rec \in OwnershipCreateInputs : RecordCreate(rec)
    \/ \E id \in 1..3, u \in Users : ArtistDelete(id, u)
    \/ \E id \in 1..3, u \in Users : GenreDelete(id, u)
    \/ \E id \in 1..3, u \in Users : LabelDelete(id, u)

SpecEntityDelete == Init /\ [][NextEntityDelete]_vars

DeleteOps == {"ArtistDelete", "GenreDelete", "LabelDelete"}

DeleteTableOf(op) ==
    CASE op = "ArtistDelete" -> artists
      [] op = "GenreDelete" -> genres
      [] op = "LabelDelete" -> labels

\* C12: Delete(id, userID) of an artist, genre or label for which no row
\* has that id together with that user_id deletes no row and returns an
\* error to its caller.
C12_DeleteReportsNoRow ==
    [][(ret'.op \in DeleteOps
        /\ ~\E x \in DeleteTableOf(ret'.op) :
               x.id = ret'.arg.ID /\ x.user_id = ret'.arg.UserID)
         => /\ UNCHANGED tables
            /\ ret'.err # ""]_vars

\* ---------------------------------------------------------------------
\* Users: UserService and the Register, UpdateProfile and Login handlers.
\* Register and UpdateProfile read (EmailExists) and then write (INSERT,
\* UPDATE) in two statements with no transaction around them, so another
\* request's statement can run in between: each is two steps of a request
\* process.
\* ---------------------------------------------------------------------

\* Session duration the handlers ask for, in hours.
SessionTTL == 24

\* What the driver reports for a violation of users.email UNIQUE.
UsersEmailKey == "pq: duplicate key value violates unique constraint \"users_email_key\""

NoUser == [ID |-> 0]
UserOf(u) == [ID |-> u.id, Email |-> u.email, Name |-> u.name]

\* UserService.EmailExists: SELECT EXISTS(SELECT 1 FROM users WHERE email = $1)
EmailExists(us, email) == \E u \in us : u.email = email

\* UserService.GetByID and GetByEmail: [err, row]
UserGetByID(us, id) ==
    IF \E u \in us : u.id = id
    THEN [err |-> "", row |-> CHOOSE u \in us : u.id = id]
    ELSE [err |-> "sql: no rows",
          row |-> [id |-> 0, email |-> "", password_hash |-> Hash(""), name |-> ""]]

UserGetByEmail(us, email) ==
    IF \E u \in us : u.email = email
    THEN [err |-> "", row |-> CHOOSE u \in us : u.email = email]
    ELSE [err |-> "sql: no rows",
          row |-> [id |-> 0, email |-> "", password_hash |-> Hash(""), name |-> ""]]

\* INSERT INTO users on a table without the UNIQUE constraint on email.
UserCreateOp_NoUnique(us, seq, email, hash, name) ==
    [err |-> "", seq |-> seq + 1,
     users |-> us \cup {[id |-> seq, email |-> email,
                         password_hash |-> hash, name |-> name]},
     val |-> [ID |-> seq, Email |-> email, Name |-> name]]

\* UserService.Create: INSERT INTO users (email, password_hash, name)
\* RETURNING id. The sequence value is taken before the constraint is
\* checked and is not given back.
UserCreateOp(us, seq, email, hash, name) ==
    IF EmailExists(us, email)
    THEN [err |-> UsersEmailKey, seq |-> seq + 1, users |-> us, val |-> NoUser]
    ELSE [err |-> "", seq |-> seq + 1,
          users |-> us \cup {[id |-> seq, email |-> email,
                              password_hash |-> hash, name |-> name]},
          val |-> [ID |-> seq, Email |-> email, Name |-> name]]

\* UserService.Update: UPDATE users SET email, name WHERE id = $3
\* RETURNING updated_at; no row updated scans as sql.ErrNoRows.
UserUpdateOp(us, id, email, name) ==
    IF ~\E u \in us : u.id = id
    THEN [err |-> "sql: no rows", users |-> us, val |-> NoUser]
    ELSE IF \E u \in us : u.id # id /\ u.email = email
    THEN [err |-> UsersEmailKey, users |-> us, val |-> NoUser]
    ELSE [err |-> "",
          users |-> {IF u.id = id THEN [u EXCEPT !.email = email, !.name = name]
                     ELSE u : u \in us},
          val |-> [ID |-> id, Email |-> email, Name |-> name]]

\* What a user handler answers: the status, the user in the body and the
\* session_token cookie (0: no cookie set).
UserResponse(status, user, cookie) ==
    [Status |-> status, User |-> user, Cookie |-> cookie]

\* A step of a request that has not answered yet.
Pending(p) ==
    ret' = [op |-> "pending", arg |-> [Proc |-> p], err |-> "", val |-> NoVal]

Answer(op, req, status, body, user, cookie) ==
    ret' = [op |-> op, arg |-> req, err |-> body,
            val |-> UserResponse(status, user, cookie)]

\* Register up to and including the EmailExists check.
RegisterBegin(p, req) ==
    /\ inflight[p] = Idle
    /\ IF req.Email = "" \/ req.Password = "" \/ req.Name = ""
       THEN /\ Answer("Register", req, 400,
                      "Email, password, and name are required", NoUser, 0)
            /\ UNCHANGED inflight
       ELSE IF EmailExists(users, req.Email)
       THEN /\ Answer("Register", req, 409, "Email already registered", NoUser, 0)
            /\ UNCHANGED inflight
       ELSE /\ inflight' = [inflight EXCEPT ![p] = [op |-> "Register", req |-> req]]
            /\ Pending(p)
    /\ UNCHANGED <<tables, seqs, seen, sessionVars, users, users_id_seq>>

\* Register from UserService.Create on: the insert, the session, the cookie.
RegisterFinish(p) ==
    /\ inflight[p].op = "Register"
    /\ users_id_seq <= MaxUserID
    /\ sessions_id_seq <= MaxSessionID
    /\ LET req == inflight[p].req
           c == UserCreateOp(users, users_id_seq, req.Email, Hash(req.Password),
                             req.Name)
           s == CreateSessionOp(sessions, sessions_id_seq, now, c.val.ID, SessionTTL)
       IN /\ users' = c.users
          /\ users_id_seq' = c.seq
          /\ IF c.err # ""
             THEN /\ Answer("Register", req, 500, "Error creating user: " \o c.err,
                            NoUser, 0)
                  /\ UNCHANGED <<sessions, sessions_id_seq>>
             ELSE /\ sessions' = s.sessions
                  /\ sessions_id_seq' = sessions_id_seq + 1
                  /\ Answer("Register", req, 201, "", c.val, s.val.Token)
    /\ inflight' = [inflight EXCEPT ![p] = Idle]
    /\ now' = now
    /\ Remember
    /\ UNCHANGED <<tables, seqs, seen>>

\* UpdateProfile up to and including the EmailExists check.
UpdateProfileBegin(p, userID, req) ==
    /\ inflight[p] = Idle
    /\ LET arg == [UserID |-> userID, Email |-> req.Email, Name |-> req.Name]
           current == UserGetByID(users, userID)
       IN IF req.Email = "" \/ req.Name = ""
          THEN /\ Answer("UpdateProfile", arg, 400, "Email and name are required",
                         NoUser, 0)
               /\ UNCHANGED inflight
          ELSE IF current.err # ""
          THEN /\ Answer("UpdateProfile", arg, 404, "User not found", NoUser, 0)
               /\ UNCHANGED inflight
          ELSE IF req.Email # current.row.email /\ EmailExists(users, req.Email)
          THEN /\ Answer("UpdateProfile", arg, 409, "Email already in use", NoUser, 0)
               /\ UNCHANGED inflight
          ELSE /\ inflight' = [inflight EXCEPT ![p] =
                                  [op |-> "UpdateProfile", req |-> arg]]
               /\ Pending(p)
    /\ UNCHANGED <<tables, seqs, seen, sessionVars, users, users_id_seq>>

\* UpdateProfile from UserService.Update on.
UpdateProfileFinish(p) ==
    /\ inflight[p].op = "UpdateProfile"
    /\ LET req == inflight[p].req
           r == UserUpdateOp(users, req.UserID, req.Email, req.Name)
       IN /\ users' = r.users
          /\ IF r.err # ""
             THEN Answer("UpdateProfile", req, 500, "Error updating profile", NoUser, 0)
             ELSE Answer("UpdateProfile", req, 200, "", r.val, 0)
    /\ inflight' = [inflight EXCEPT ![p] = Idle]
    /\ UNCHANGED <<tables, seqs, seen, sessionVars, users_id_seq>>

RegisterInputs ==
    {[Email |-> e, Password |-> "pw3", Name |-> "Cy"] : e \in {"a@x", "c@x"}}
        \cup {[Email |-> "", Password |-> "pw3", Name |-> "Cy"]}

ProfileInputs ==
    {[Email |-> e, Name |-> "Di"] : e \in {"b@x", "c@x"}}
        \cup {[Email |-> "c@x", Name |-> ""]}

NextUsers ==
    \/ \E p \in Procs, req \in RegisterInputs : RegisterBegin(p, req)
    \/ \E p \in Procs : RegisterFinish(p)
    \/ \E p \in Procs, u \in {1, 3}, req \in ProfileInputs :
          UpdateProfileBegin(p, u, req)
    \/ \E p \in Procs : UpdateProfileFinish(p)

SpecUsers == Init /\ [][NextUsers]_vars

\* C13: whatever way the statements of concurrent Register and
\* UpdateProfile requests interleave, no two rows of users have the same
\* email.
C13_EmailUnique ==
    \A u, v \in users : u.email = v.email => u = v

\* An UpdateProfile that passed its EmailExists check lost the email to a
\* Register that ran in between, and its UPDATE was refused.
C13_Witness ==
    /\ ret.op = "UpdateProfile"
    /\ ret.val.Status = 500
    /\ \E u \in users : u.email = ret.arg.Email /\ u.id > 2

\* C14: a Register for an email that a user holds is answered 409 and
\* adds no user and no session, also when the email was taken by a
\* concurrent Register after the EmailExists check.
C14_DuplicateRegisterIsConflict ==
    [][(ret'.op = "Register" /\ EmailExists(users, ret'.arg.Email))
         => /\ ret'.val.Status = 409
            /\ users' = users
            /\ sessions' = sessions]_vars

\* ---------------------------------------------------------------------
\* ArtistService.Create and the CreateArtist handler.
\* ---------------------------------------------------------------------

\* What the driver reports for a violation of artists UNIQUE(name, user_id).
ArtistsNameKey == "pq: duplicate key value violates unique constraint \"artists_name_user_id_key\""

\* ArtistService.Create: INSERT INTO artists (name, description, user_id)
\* RETURNING id: [err, db, val]. The sequence value is taken before the
\* constraint is checked.
ArtistCreateOp(db, e) ==
    LET id == db.artists_id_seq
        taken == [db EXCEPT !.artists_id_seq = @ + 1]
        row == [id |-> id, name |-> e.Name,
                description |-> NullString(e.Description), user_id |-> e.UserID]
    IN IF ArtistNameTaken(db, [e EXCEPT !.ID = 0])
       THEN [err |-> ArtistsNameKey, db |-> taken, val |-> NoEntity]
       ELSE [err |-> "", db |-> [taken EXCEPT !.artists = @ \cup {row}],
             val |-> [e EXCEPT !.ID = id]]

\* ArtistHandler.CreateArtist
CreateArtist(caller, body) ==
    /\ artists_id_seq <= MaxArtistID
    /\ LET r == ArtistCreateOp(DB, [body EXCEPT !.UserID = caller])
       IN /\ Store(r.db)
          /\ ret' = [op |-> "CreateArtist",
                     arg |-> [Caller |-> caller, ID |-> 0, Body |-> body],
                     err |-> IF r.err = "" THEN "" ELSE "Error creating artist",
                     val |-> IF r.err = "" THEN Response(201, {r.val})
                             ELSE Response(500, {})]
    /\ UNCHANGED <<sessionVars, userVars>>

\* Bodies with the name of user 1's artist, of user 2's artist and a new one.
ArtistBodies ==
    {[ID |-> 0, UserID |-> 0, Name |-> n, Description |-> d] :
        n \in {<<"M", "i">>, <<"C", "o">>, <<"Z", "z">>}, d \in {<<>>, <<"d">>}}

NextArtistCreate ==
    \E caller \in Users, body \in ArtistBodies : CreateArtist(caller, body)

SpecArtistCreate == Init /\ [][NextArtistCreate]_vars

\* The caller has an artist of that name.
NameUsedBy(caller, name) ==
    \E a \in artists : a.user_id = caller /\ a.name = name

\* C15: CreateArtist with a name the caller already uses is answered 409
\* and adds no artists row; with a name only another user uses it is
\* answered 201 and adds the caller's row.
C15_DuplicateArtistIsConflict ==
    [][ret'.op = "CreateArtist" =>
         LET caller == ret'.arg.Caller
             name == ret'.arg.Body.Name
         IN IF NameUsedBy(caller, name)
            THEN ret'.val.Status = 409 /\ artists' = artists
            ELSE /\ ret'.val.Status = 201
                 /\ \E a \in artists' \ artists :
                       a.user_id = caller /\ a.name = name]_vars

\* ---------------------------------------------------------------------
\* UserHandler.Login
\* ---------------------------------------------------------------------

\* Login that tells an unknown email apart.
LoginOp_UserNotFound(us, sess, seq, clock, req) ==
    LET found == UserGetByEmail(us, req.Email)
        s == CreateSessionOp(sess, seq, clock, found.row.id, SessionTTL)
        refused(status, body) ==
            [status |-> status, body |-> body, user |-> NoUser, cookie |-> 0,
             sessions |-> sess, seq |-> seq]
    IN IF req.Email = "" \/ req.Password = ""
       THEN refused(400, "Email and password are required")
       ELSE IF found.err # ""
       THEN refused(404, "User not found")
       ELSE IF ~CompareHashAndPassword(found.row.password_hash, req.Password)
       THEN refused(401, "Invalid email or password")
       ELSE [status |-> IF req.AcceptJSON THEN 200 ELSE 303, body |-> "",
             user |-> IF req.AcceptJSON THEN UserOf(found.row) ELSE NoUser,
             cookie |-> s.val.Token, sessions |-> s.sessions, seq |-> seq + 1]

\* The handler as a function of the tables and the request: what it
\* answers (status, body text of http.Error, user, cookie) and the
\* sessions table and sequence it leaves.
LoginOp(us, sess, seq, clock, req) ==
    LET found == UserGetByEmail(us, req.Email)
        s == CreateSessionOp(sess, seq, clock, found.row.id, SessionTTL)
        refused(status, body) ==
            [status |-> status, body |-> body, user |-> NoUser, cookie |-> 0,
             sessions |-> sess, seq |-> seq]
    IN IF req.Email = "" \/ req.Password = ""
       THEN refused(400, "Email and password are required")
       ELSE IF found.err # ""
       THEN refused(401, "Invalid email or password")
       ELSE IF ~CompareHashAndPassword(found.row.password_hash, req.Password)
       THEN refused(401, "Invalid email or password")
       ELSE [status |-> IF req.AcceptJSON THEN 200 ELSE 303, body |-> "",
             user |-> IF req.AcceptJSON THEN UserOf(found.row) ELSE NoUser,
             cookie |-> s.val.Token, sessions |-> s.sessions, seq |-> seq + 1]

Login(req) ==
    LET r == LoginOp(users, sessions, sessions_id_seq, now, req)
    IN /\ r.seq <= MaxSessionID + 1
       /\ sessions' = r.sessions
       /\ sessions_id_seq' = r.seq
       /\ Answer("Login", req, r.status, r.body, r.user, r.cookie)
       /\ now' = now
       /\ Remember
       /\ UNCHANGED <<tables, seqs, seen, userVars>>

LoginInputs ==
    [Email : {"a@x", "c@x", ""}, Password : {"pw1", "pw3"}, AcceptJSON : BOOLEAN]

\* Logins next to the registration of c@x with the password pw3.
NextLogin ==
    \/ \E req \in LoginInputs : Login(req)
    \/ RegisterBegin(1, [Email |-> "c@x", Password |-> "pw3", Name |-> "Cy"])
    \/ RegisterFinish(1)

SpecLogin == Init /\ [][NextLogin]_vars

UnknownEmail(req) ==
    req.Email # "" /\ req.Password # "" /\ ~EmailExists(users, req.Email)

WrongPassword(req) ==
    /\ req.Email # "" /\ req.Password # ""
    /\ \E u \in users :
          u.email = req.Email /\ ~CompareHashAndPassword(u.password_hash, req.Password)

\* C16: against the same tables, a Login with an unknown email and a Login
\* with a registered email and a wrong password are answered with the same
\* status and the same body, and neither adds a session or sets a cookie.
C16_LoginDoesNotReveal ==
    \A r1, r2 \in LoginInputs :
        (UnknownEmail(r1) /\ WrongPassword(r2)) =>
            LET a == LoginOp(users, sessions, sessions_id_seq, now, r1)
                b == LoginOp(users, sessions, sessions_id_seq, now, r2)
            IN /\ a.status = b.status
               /\ a.body = b.body
               /\ a.sessions = sessions /\ b.sessions = sessions
               /\ a.cookie = 0 /\ b.cookie = 0

\* A Login with a registered email and a wrong password was refused with
\* 401 and no cookie while a session of another request exists.
C16_Witness ==
    /\ ret.op = "Login"
    /\ WrongPassword(ret.arg)
    /\ ret.val.Status = 401
    /\ ret.val.Cookie = 0
    /\ sessions # {}

\* ---------------------------------------------------------------------
\* auth.Middleware and auth.GenerateToken (JWT)
\* ---------------------------------------------------------------------

\* JWT_SECRET of the server and a key that is not it.
JWTSecret == "secret"
OtherKey == "other"

\* JWT_EXPIRATION, in ticks of the clock.
JWTExpiration == 2

\* The claims a signature covers.
ClaimsOf(t) ==
    [UserID |-> t.UserID, IssuedAt |-> t.IssuedAt, HasExp |-> t.HasExp,
     ExpiresAt |-> t.ExpiresAt]

\* HMAC of the claims under a key: equal exactly for equal key and claims.
Sign(key, claims) == <<key, claims>>

\* GenerateToken at time clock: Claims{UserID, ExpiresAt: now + expiration,
\* IssuedAt: now, NotBefore: now}, HS256, signed with JWT_SECRET.
GenerateToken(userID, clock) ==
    LET claims == [UserID |-> userID, IssuedAt |-> clock, HasExp |-> TRUE,
                   ExpiresAt |-> clock + JWTExpiration]
    IN [Malformed |-> FALSE, Alg |-> "HS256", UserID |-> userID,
        IssuedAt |-> clock, HasExp |-> TRUE,
        ExpiresAt |-> clock + JWTExpiration,
        Sig |-> Sign(JWTSecret, claims)]

\* ParseWithClaims that does not verify the signature.
ParseWithClaims_Unverified(t, clock) ==
    IF t.Malformed THEN "token contains an invalid number of segments"
    ELSE IF t.Alg # "HS256" THEN "unexpected signing method"
    ELSE IF t.HasExp /\ ~(clock < t.ExpiresAt) THEN "token is expired"
    ELSE IF clock < t.IssuedAt THEN "token is not valid yet"
    ELSE ""

\* jwt.ParseWithClaims with the middleware's key function: the error text,
\* "" for a valid token. exp is optional to the library and is compared
\* with now.Before(exp).
ParseWithClaims(t, clock) ==
    IF t.Malformed THEN "token contains an invalid number of segments"
    ELSE IF t.Alg # "HS256" THEN "unexpected signing method"
    ELSE IF t.HasExp /\ ~(clock < t.ExpiresAt) THEN "token is expired"
    ELSE IF clock < t.IssuedAt THEN "token is not valid yet"
    ELSE IF t.Sig # Sign(JWTSecret, ClaimsOf(t)) THEN "signature is invalid"
    ELSE ""

\* What the middleware does with a request: the status, whether the
\* protected handler ran and the userID it found in the context. The
\* protected handler answers 200. A verified token without exp makes
\* claims.ExpiresAt.Unix() dereference nil; the router's Recoverer
\* answers 500.
Outcome(status, body, invoked, userID) ==
    [err |-> body, val |-> [Status |-> status, Invoked |-> invoked, UserID |-> userID]]

MiddlewareOp(h, clock) ==
    LET e == ParseWithClaims(h.Token, clock)
    IN IF h.Scheme = ""
       THEN Outcome(401, "Authorization header required", FALSE, 0)
       ELSE IF h.Scheme # "Bearer "
       THEN Outcome(401, "Authorization header must be in format: Bearer {token}",
                    FALSE, 0)
       ELSE IF e # "" THEN Outcome(401, "Invalid token: " \o e, FALSE, 0)
       ELSE IF ~h.Token.HasExp THEN Outcome(500, "Internal Server Error", FALSE, 0)
       ELSE IF clock > h.Token.ExpiresAt THEN Outcome(401, "Token expired", FALSE, 0)
       ELSE Outcome(200, "", TRUE, h.Token.UserID)

Middleware(h) ==
    /\ LET r == MiddlewareOp(h, now)
       IN ret' = [op |-> "Middleware", arg |-> [Header |-> h, At |-> now],
                  err |-> r.err, val |-> r.val]
    /\ UNCHANGED <<tables, seqs, seen, sessionVars, userVars>>

\* What a client can send at time clock: the tokens GenerateToken has
\* made so far, each also re-signed with another key, with another
\* user_id under the old signature, with another algorithm and without
\* exp; a string that is no token; no header; a header of another scheme.
Garbage == [GenerateToken(0, 0) EXCEPT !.Malformed = TRUE]

Resign(key, t) == [t EXCEPT !.Sig = Sign(key, ClaimsOf(t))]

TokensAt(clock) ==
    LET issued == {GenerateToken(u, t) : u \in Users, t \in 0..clock}
    IN issued
       \cup {Resign(OtherKey, t) : t \in issued}
       \cup {[t EXCEPT !.UserID = 3 - @] : t \in issued}
       \cup {[t EXCEPT !.Alg = "none"] : t \in issued}
       \cup {Resign(JWTSecret, [t EXCEPT !.HasExp = FALSE]) : t \in issued}
       \cup {Resign(OtherKey, [t EXCEPT !.ExpiresAt = MaxTime + 1]) : t \in issued}

HeadersAt(clock) ==
    {[Scheme |-> "Bearer ", Token |-> t] : t \in TokensAt(clock) \cup {Garbage}}
        \cup {[Scheme |-> s, Token |-> GenerateToken(1, 0)] : s \in {"", "Basic "}}

NextAuth ==
    \/ \E h \in HeadersAt(now) : Middleware(h)
    \/ Tick

SpecAuth == Init /\ [][NextAuth]_vars

ValidSignature(t) ==
    ~t.Malformed /\ t.Alg = "HS256" /\ t.Sig = Sign(JWTSecret, ClaimsOf(t))

\* C17: the protected handler runs only for a Bearer token with a valid
\* HMAC signature whose expiry is not in the past, and then finds the
\* token's user_id in the context; a missing header, a malformed header,
\* a bad signature and an expired token are answered 401 without the
\* handler running.
C17_OnlyValidTokensPass ==
    ret.op = "Middleware" =>
        LET h == ret.arg.Header
            t == h.Token
            at == ret.arg.At
        IN /\ ret.val.Invoked =>
                /\ h.Scheme = "Bearer "
                /\ ValidSignature(t)
                /\ t.HasExp /\ at <= t.ExpiresAt
                /\ ret.val.UserID = t.UserID
           /\ (\/ h.Scheme # "Bearer "
               \/ ~ValidSignature(t)
               \/ (t.HasExp /\ at > t.ExpiresAt))
                => ret.val.Status = 401 /\ ~ret.val.Invoked

\* A token that GenerateToken made for user 2 at an earlier time passed
\* the middleware, and the handler ran as user 2.
C17_Witness ==
    /\ ret.op = "Middleware"
    /\ ret.val.Invoked
    /\ ret.val.UserID = 2
    /\ ret.arg.At > 0
    /\ ret.arg.Header.Token.IssuedAt < ret.arg.At

\* C18: SessionService.Create adds a row with expires_at = now + ttl and
\* returns a Session whose Token and ExpiresAt are that row's token and
\* expires_at.
C18_CreateReturnsPersisted ==
    [][(ret'.op = "SessionCreate" /\ now' = now) =>
         \E row \in sessions' \ sessions :
            /\ row.expires_at = now + ret'.arg.Duration
            /\ ret'.val.Token = row.token
            /\ ret'.val.ExpiresAt = row.expires_at]_vars

\* The error texts the storage layer hands to the services.
StorageErrors == {UsersEmailKey, ArtistsNameKey, "sql: no rows", "duplicate key"}

\* The texts a handler may put in front of an error it appends.
BodyPrefixes ==
    {"", "Error creating user: ", "Error updating profile: ", "Database error: "}

\* The body is, or ends with, the text of a storage error.
Leaks(body) == \E p \in BodyPrefixes, e \in StorageErrors : body = p \o e

\* C19: the body of a response of Register and UpdateProfile never
\* contains the text of the storage error behind a failure.
C19_NoStorageTextInBody ==
    ret.op \in {"Register", "UpdateProfile"} => ~Leaks(ret.err)

\* The tokens SessionService.Create has handed out so far.
IssuedTokens == 1..(sessions_id_seq - 1)

HasRow(sess, token) == \E s \in sess : s.token = token

\* C20: DeleteByToken(t) removes the rows of t and no other row,
\* DeleteByUserID(u) removes the rows of u and no other row, a token that
\* was handed out and has no row never has a row again, and GetByToken
\* of such a token returns an error and no session.
C20_RevocationFinalAndScoped ==
    [][/\ (ret'.op = "DeleteByToken" /\ now' = now)
            => sessions' = {s \in sessions : s.token # ret'.arg.Token}
       /\ (ret'.op = "DeleteByUserID" /\ now' = now)
            => sessions' = {s \in sessions : s.user_id # ret'.arg.UserID}
       /\ \A t \in IssuedTokens :
            ~HasRow(sessions, t)
                => /\ ~HasRow(sessions', t)
                   /\ (IsGetByToken /\ ret'.arg.Token = t)
                        => ret'.err # "" /\ ret'.val = NoSession]_vars

\* GetByToken failed for a token that was handed out, never expired and
\* has no row (it was revoked), while the other session is still there.
C20_Witness ==
    /\ ret.op = "GetByToken"
    /\ ret.arg.Token \in IssuedTokens
    /\ ret.arg.Token \notin wasExpired
    /\ ret.err = "sql: no rows"
    /\ ~HasRow(sessions, ret.arg.Token)
    /\ \E s \in sessions : s.token # ret.arg.Token /\ now <= s.expires_at

\* The step is a call of CleanExpiredSessions.
IsCleanExpired == ret'.op = "CleanExpiredSessions" /\ now' = now

\* C21: CleanExpiredSessions removes exactly the rows with expires_at
\* earlier than now; every other row stays as it was, and GetByToken of its
\* token returns that session afterwards.
C21_CleanRemovesExactlyExpired ==
    [][IsCleanExpired =>
         /\ sessions' = {s \in sessions : ~(s.expires_at < now)}
         /\ \A s \in sessions :
               now <= s.expires_at =>
                  /\ s \in sessions'
                  /\ LET g == GetByTokenOp(sessions', now', s.token)
                     IN /\ g.err = ""
                        /\ g.val.Token = s.token
                        /\ g.val.ExpiresAt = s.expires_at
                        /\ g.sessions = sessions']_vars

\* CleanExpiredSessions has run with an expired row and a row that expires
\* at this very moment in the table: the first is gone, the second is there.
C21_Witness ==
    /\ ret.op = "CleanExpiredSessions"
    /\ \E s \in sessions : s.expires_at = now
    /\ \E t \in IssuedTokens \cap wasExpired : ~HasRow(sessions, t)
    /\ \A s \in sessions : ~(s.expires_at < now)

\* The UPDATE of the base row of the submitted record matches a row.
BaseRowMatches(rec) ==
    \E r \in records : r.id = rec.ID /\ r.user_id = rec.UserID

\* C22: a RecordService.Update that returns an error leaves records,
\* artist_record, genre_record and tracks as they were, also when the error
\* comes after the base row was updated.
C22_FailedUpdateRollsBack ==
    [][(ret'.op = "RecordUpdate" /\ ret'.err # "")
         => UNCHANGED <<records, artist_record, genre_record, tracks>>]_vars

\* An Update failed on its artist or genre list after its UPDATE of the
\* base row had matched; the record has its old title, artists and tracks.
C22_Witness ==
    /\ ret.op = "RecordUpdate"
    /\ ret.err \in {"foreign key violation", "duplicate key"}
    /\ BaseRowMatches(ret.arg)
    /\ ~(ret.arg.LabelID # 0 /\ ~\E l \in labels : l.id = ret.arg.LabelID)
    /\ \E r \in records : r.id = ret.arg.ID /\ r.title # ret.arg.Title
    /\ \E x \in artist_record : x.record_id = ret.arg.ID
    /\ \E t \in tracks : t.record_id = ret.arg.ID

\* ---------------------------------------------------------------------
\* RecordService.GetByID next to concurrent writers. GetByID runs its
\* SELECT of the base row and then loadArtists, loadGenres, loadTracks and
\* loadLabel as statements of their own on the pool, with no transaction
\* around them; a committed Update can come between them. The read is two
\* steps of a request process: the base row, then the four loads.
\* ---------------------------------------------------------------------

\* GetByID up to the Scan of the base row.
GetByIDBegin(p, id) ==
    /\ inflight[p] = Idle
    /\ IF ~RecordExists(DB, id)
       THEN /\ ret' = [op |-> "GetByID", arg |-> [Proc |-> p, ID |-> id],
                       err |-> "sql: no rows", val |-> NoRecord]
            /\ UNCHANGED <<inflight, seen>>
       ELSE /\ inflight' = [inflight EXCEPT ![p] =
                               [op |-> "GetByID",
                                req |-> [ID |-> id, Row |-> RecordRow(DB, id)]]]
            /\ seen' = [seen EXCEPT ![p] = {GetByID(DB, id)}]
            /\ Pending(p)
    /\ UNCHANGED <<tables, records_id_seq, tracks_id_seq, artists_id_seq,
                   sessionVars, users, users_id_seq>>

\* GetByID from loadArtists on, with the row scanned before.
GetByIDFinish(p) ==
    /\ inflight[p].op = "GetByID"
    /\ LET id == inflight[p].req.ID
           r == inflight[p].req.Row
           label == IF r.label_id.Valid THEN loadLabel(DB, r.label_id.Int32) ELSE {}
       IN ret' = IF r.label_id.Valid /\ label = {}
                 THEN [op |-> "GetByID", arg |-> [Proc |-> p, ID |-> id],
                       err |-> "sql: no rows", val |-> NoRecord]
                 ELSE [op |-> "GetByID", arg |-> [Proc |-> p, ID |-> id],
                       err |-> "",
                       val |-> [ID |-> id, Fields |-> ScanRecord(r),
                                Artists |-> loadArtists(DB, id),
                                Genres |-> loadGenres(DB, id),
                                Tracks |-> loadTracks(DB, id),
                                Label |-> label]]
    /\ inflight' = [inflight EXCEPT ![p] = Idle]
    /\ seen' = [seen EXCEPT ![p] = {}]
    /\ UNCHANGED <<tables, records_id_seq, tracks_id_seq, artists_id_seq,
                   sessionVars, users, users_id_seq>>

\* Updates of either record by either user, with and without relations.
ReadUpdateInputs ==
    {MakeRecord(id, u, ScalarsAb, rel) :
        id \in 1..MaxRecordID, u \in Users, rel \in {RelNone, RelTwo}}

NextRead ==
    \/ \E rec \in OwnershipCreateInputs : RecordCreate(rec)
    \/ \E rec \in ReadUpdateInputs : RecordUpdate(rec)
    \/ \E id \in 1..MaxRecordID : GetByIDBegin(1, id)
    \/ GetByIDFinish(1)

SpecRead == Init /\ [][NextRead]_vars

\* C23: what a GetByID returns is what a GetByID in one statement would
\* have returned at some moment between its start and its end: the
\* aggregate wholly before or wholly after each Update that committed
\* meanwhile.
C23_ReadIsAtomic ==
    [][\A p \in Procs :
          (inflight[p].op = "GetByID" /\ inflight'[p] = Idle)
             => [err |-> ret'.err, rec |-> ret'.val] \in seen[p]]_vars

\* The rows of tracks of a record, and what they carry besides their id.
TrackRowsOf(rows, rid) == {t \in rows : t.record_id = rid}
SubmittedOf(rows) ==
    {[Title |-> t.title, Duration |-> t.duration, Position |-> t.position] :
        t \in rows}

\* C24: a successful Update with an empty track list leaves every row of
\* tracks, ids included, as it was; with a non-empty list the record's
\* previous rows are gone, its rows are exactly the submitted tracks, and
\* the rows of other records are as they were.
C24_TracksReplacedOnlyWhenSubmitted ==
    [][(ret'.op = "RecordUpdate" /\ ret'.err = "") =>
         LET rid == ret'.arg.ID
             list == ret'.arg.Tracks
         IN IF Len(list) = 0
            THEN tracks' = tracks
            ELSE /\ TrackRowsOf(tracks', rid) \cap TrackRowsOf(tracks, rid) = {}
                 /\ {t.id : t \in TrackRowsOf(tracks', rid)}
                        \cap {t.id : t \in TrackRowsOf(tracks, rid)} = {}
                 /\ SubmittedOf(TrackRowsOf(tracks', rid)) = SeqToSet(list)
                 /\ Cardinality(TrackRowsOf(tracks', rid)) = Len(list)
                 /\ tracks' \ TrackRowsOf(tracks', rid)
                        = tracks \ TrackRowsOf(tracks, rid)]_vars

\* An Update without tracks succeeded on a record whose one track had been
\* replaced by two in an earlier Update: the two are still there.
C24_Witness ==
    /\ ret.op = "RecordUpdate" /\ ret.err = ""
    /\ ret.arg.Tracks = <<>>
    /\ {t.id : t \in TrackRowsOf(tracks, ret.arg.ID)} = {2, 3}

\* ---------------------------------------------------------------------
\* RecordHandler.DeleteRecord next to concurrent requests: the handler
\* looks the record up (GetByID), compares its UserID with the caller and
\* then calls RecordService.Delete(id) as a statement of its own. The
\* request is two steps of a request process.
\* ---------------------------------------------------------------------

\* The lookup that lets every caller pass.
RecordOwnerCheck_NoOwner(db, id, caller) ==
    LET existing == GetByID(db, id)
    IN IF existing.err # "" THEN [status |-> 404, body |-> "Record not found"]
       ELSE [status |-> 0, body |-> ""]

\* GetByID and record.UserID != userID: the status and body the handler
\* answers with, status 0 to go on.
RecordOwnerCheck(db, id, caller) ==
    LET existing == GetByID(db, id)
    IN IF existing.err # "" THEN [status |-> 404, body |-> "Record not found"]
       ELSE IF existing.rec.Fields.UserID # caller
       THEN [status |-> 401, body |-> "Unauthorized"]
       ELSE [status |-> 0, body |-> ""]

DeleteRecordBegin(p, caller, id) ==
    /\ inflight[p] = Idle
    /\ LET c == RecordOwnerCheck(DB, id, caller)
           arg == [Caller |-> caller, ID |-> id]
       IN IF c.status # 0
          THEN /\ ret' = [op |-> "DeleteRecord", arg |-> arg, err |-> c.body,
                          val |-> Response(c.status, {})]
               /\ UNCHANGED inflight
          ELSE /\ inflight' = [inflight EXCEPT ![p] =
                                  [op |-> "DeleteRecord", req |-> arg]]
               /\ Pending(p)
    /\ UNCHANGED <<tables, seqs, seen, sessionVars, users, users_id_seq>>

DeleteRecordFinish(p) ==
    /\ inflight[p].op = "DeleteRecord"
    /\ Store(DeleteRecord(DB, inflight[p].req.ID))
    /\ ret' = [op |-> "DeleteRecord", arg |-> inflight[p].req, err |-> "",
               val |-> Response(204, {})]
    /\ inflight' = [inflight EXCEPT ![p] = Idle]
    /\ UNCHANGED <<sessionVars, users, users_id_seq>>

NextDelete ==
    \/ \E rec \in OwnershipCreateInputs : RecordCreate(rec)
    \/ \E rec \in OwnershipUpdateInputs : RecordUpdate(rec)
    \/ \E p \in Procs, caller \in Users, id \in 1..MaxRecordID :
          DeleteRecordBegin(p, caller, id)
    \/ \E p \in Procs : DeleteRecordFinish(p)

SpecDelete == Init /\ [][NextDelete]_vars

\* C25: whatever runs between the ownership check and the DELETE of a
\* DeleteRecord request, every row of records that the request removes has
\* the caller's user_id.
C25_DeleteRemovesOnlyOwn ==
    [][\A p \in Procs :
          (inflight[p].op = "DeleteRecord" /\ inflight'[p] = Idle) =>
             \A r \in records :
                (~\E x \in records' : x.id = r.id)
                   => r.user_id = inflight[p].req.Caller]_vars

\* Two DeleteRecord requests passed the check for the same record; one has
\* deleted it, the other is still to run its DELETE, and a record of the
\* other user is in the table.
C25_Witness ==
    /\ ret.op = "DeleteRecord" /\ ret.val.Status = 204
    /\ \E q \in Procs :
          inflight[q].op = "DeleteRecord" /\ inflight[q].req.ID = ret.arg.ID
    /\ ~\E r \in records : r.id = ret.arg.ID
    /\ \E r \in records : r.user_id # ret.arg.Caller

\* ---------------------------------------------------------------------
\* The order in which the handlers decode and validate the request and
\* call the storage services: for a request, the status answered and the
\* storage calls made before the answer.
\* ---------------------------------------------------------------------

\* A body json.Decode returns an error for.
Malformed == [Malformed |-> TRUE]

Traced(status, calls) == [Status |-> status, Calls |-> calls]

\* RecordHandler.UpdateRecord
UpdateRecordTrace(db, caller, id, body) ==
    LET existing == GetByID(db, id)
    IN IF existing.err # "" THEN Traced(404, <<"GetByID">>)
       ELSE IF existing.rec.Fields.UserID # caller THEN Traced(401, <<"GetByID">>)
       ELSE IF body = Malformed THEN Traced(400, <<"GetByID">>)
       ELSE IF UpdateTx(db, [body EXCEPT !.ID = id, !.UserID = caller]).err # ""
       THEN Traced(500, <<"GetByID", "Update">>)
       ELSE Traced(200, <<"GetByID", "Update">>)

\* ArtistHandler.UpdateArtist, GenreHandler.UpdateGenre, LabelHandler.UpdateLabel
UpdateEntityTrace(h, db, caller, id, body) ==
    LET rows == IF h = "UpdateArtist" THEN db.artists
                ELSE IF h = "UpdateGenre" THEN db.genres ELSE db.labels
        c == OwnerCheck(rows, id, caller, "not found")
        e == [body EXCEPT !.ID = id, !.UserID = caller]
        r == IF h = "UpdateArtist" THEN ArtistUpdateOp(db, e)
             ELSE IF h = "UpdateGenre" THEN GenreUpdateOp(db, e)
             ELSE LabelUpdateOp(db, e)
    IN IF c.status # 0 THEN Traced(c.status, <<"GetByID">>)
       ELSE IF body = Malformed THEN Traced(400, <<"GetByID">>)
       ELSE IF r.err # "" THEN Traced(500, <<"GetByID", "Update">>)
       ELSE Traced(200, <<"GetByID", "Update">>)

\* RecordHandler.CreateRecord and ArtistHandler.CreateArtist
CreateTrace(h, db, caller, body) ==
    LET r == IF h = "CreateRecord" THEN CreateTx(db, [body EXCEPT !.UserID = caller])
             ELSE ArtistCreateOp(db, [body EXCEPT !.UserID = caller])
    IN IF body = Malformed THEN Traced(400, <<>>)
       ELSE IF r.err # "" THEN Traced(500, <<"Create">>)
       ELSE Traced(201, <<"Create">>)

\* UserHandler.Register
RegisterTrace(us, req) ==
    IF req = Malformed THEN Traced(400, <<>>)
    ELSE IF req.Email = "" \/ req.Password = "" \/ req.Name = "" THEN Traced(400, <<>>)
    ELSE IF EmailExists(us, req.Email) THEN Traced(409, <<"EmailExists">>)
    ELSE Traced(201, <<"EmailExists", "Create", "SessionCreate">>)

\* UserHandler.Login
LoginTrace(us, req) ==
    LET found == UserGetByEmail(us, req.Email)
    IN IF req = Malformed THEN Traced(400, <<>>)
       ELSE IF req.Email = "" \/ req.Password = "" THEN Traced(400, <<>>)
       ELSE IF found.err # "" THEN Traced(401, <<"GetByEmail">>)
       ELSE IF ~CompareHashAndPassword(found.row.password_hash, req.Password)
       THEN Traced(401, <<"GetByEmail">>)
       ELSE Traced(IF req.AcceptJSON THEN 200 ELSE 303,
                   <<"GetByEmail", "SessionCreate">>)

\* UserHandler.UpdatePassword
UpdatePasswordTrace(us, userID, req) ==
    LET found == UserGetByID(us, userID)
    IN IF req = Malformed THEN Traced(400, <<>>)
       ELSE IF req.CurrentPassword = "" \/ req.NewPassword = "" THEN Traced(400, <<>>)
       ELSE IF found.err # "" THEN Traced(404, <<"GetByID">>)
       ELSE IF ~CompareHashAndPassword(found.row.password_hash, req.CurrentPassword)
       THEN Traced(401, <<"GetByID">>)
       ELSE Traced(200, <<"GetByID", "UpdatePassword">>)

HandlerTrace(q) ==
    IF q.Handler = "UpdateRecord" THEN UpdateRecordTrace(DB, q.Caller, q.ID, q.Body)
    ELSE IF q.Handler \in {"UpdateArtist", "UpdateGenre", "UpdateLabel"}
    THEN UpdateEntityTrace(q.Handler, DB, q.Caller, q.ID, q.Body)
    ELSE IF q.Handler \in {"CreateRecord", "CreateArtist"}
    THEN CreateTrace(q.Handler, DB, q.Caller, q.Body)
    ELSE IF q.Handler = "Register" THEN RegisterTrace(users, q.Body)
    ELSE IF q.Handler = "Login" THEN LoginTrace(users, q.Body)
    ELSE UpdatePasswordTrace(users, q.Caller, q.Body)

\* A request is handled; what it writes is the subject of the other
\* specifications.
Handle(q) ==
    /\ ret' = [op |-> "Handle", arg |-> q, err |-> "", val |-> HandlerTrace(q)]
    /\ UNCHANGED <<tables, seqs, seen, sessionVars, userVars>>

Request(h, caller, id, body) ==
    [Handler |-> h, Caller |-> caller, ID |-> id, Body |-> body]

PasswordInputs ==
    [CurrentPassword : {"pw1", ""}, NewPassword : {"pw9", ""}]

Requests ==
    {Request("UpdateRecord", u, id, b) :
        u \in Users, id \in 1..MaxRecordID, b \in {Malformed, GuardUpdateBody}}
    \cup {Request(h, u, id, b) :
            h \in {"UpdateArtist", "UpdateGenre", "UpdateLabel"}, u \in Users,
            id \in {1, 3}, b \in {Malformed, EntityBody}}
    \cup {Request("CreateRecord", u, 0, b) :
            u \in Users, b \in {Malformed, GuardCreateBody}}
    \cup {Request("CreateArtist", u, 0, b) :
            u \in Users, b \in {Malformed, EntityBody}}
    \cup {Request("Register", 0, 0, b) : b \in RegisterInputs \cup {Malformed}}
    \cup {Request("Login", 0, 0, b) : b \in LoginInputs \cup {Malformed}}
    \cup {Request("UpdatePassword", u, 0, b) :
            u \in {1, 3}, b \in PasswordInputs \cup {Malformed}}

NextValidate ==
    \/ \E rec \in OwnershipCreateInputs : RecordCreate(rec)
    \/ \E q \in Requests : Handle(q)

SpecValidate == Init /\ [][NextValidate]_vars

\* The fields the user handlers require.
RequiredFields(h) ==
    IF h = "Register" THEN {"Email", "Password", "Name"}
    ELSE IF h = "Login" THEN {"Email", "Password"}
    ELSE IF h = "UpdatePassword" THEN {"CurrentPassword", "NewPassword"}
    ELSE {}

\* The body does not decode, or a required field of it is empty.
Invalid(q) ==
    \/ q.Body = Malformed
    \/ \E f \in RequiredFields(q.Handler) : q.Body[f] = ""

\* C26: a request whose body does not decode or lacks a required field is
\* answered with a 4xx status and no storage call has been made for it.
C26_RejectedBeforeStorage ==
    (ret.op = "Handle" /\ Invalid(ret.arg)) =>
        /\ ret.val.Status \in 400..499
        /\ ret.val.Calls = <<>>

\* ---------------------------------------------------------------------
\* SessionService.GetByToken next to Refresh and CleanExpiredSessions:
\* GetByToken reads the row with one SELECT and then compares the
\* ExpiresAt it read with time.Now(), deleting by id when it is past. The
\* call is two steps of a request process.
\* ---------------------------------------------------------------------

\* GetByToken that returns what it read without looking at ExpiresAt.
ExpiryCheck_None(sess, clock, row) ==
    [err |-> "", sessions |-> sess,
     val |-> [ID |-> row.id, UserID |-> row.user_id, Token |-> row.token,
              ExpiresAt |-> row.expires_at]]

\* if time.Now().After(session.ExpiresAt) { s.Delete(session.ID); return
\* nil, "session expired" } return &session, nil
ExpiryCheck(sess, clock, row) ==
    IF clock > row.expires_at
    THEN [err |-> "session expired", sessions |-> DeleteSessionOp(sess, row.id),
          val |-> NoSession]
    ELSE [err |-> "", sessions |-> sess,
          val |-> [ID |-> row.id, UserID |-> row.user_id, Token |-> row.token,
                   ExpiresAt |-> row.expires_at]]

\* GetByToken up to the Scan of the row.
GetByTokenBegin(p, token) ==
    /\ inflight[p] = Idle
    /\ IF ~HasRow(sessions, token)
       THEN /\ ret' = [op |-> "GetByToken", arg |-> [Token |-> token],
                       err |-> "sql: no rows", val |-> NoSession]
            /\ UNCHANGED inflight
       ELSE /\ inflight' = [inflight EXCEPT ![p] =
                               [op |-> "GetByToken",
                                req |-> [Token |-> token,
                                         Row |-> CHOOSE s \in sessions :
                                                    s.token = token]]]
            /\ Pending(p)
    /\ UNCHANGED <<tables, seqs, seen, sessionVars, users, users_id_seq>>

\* GetByToken from its expiry check on.
GetByTokenFinish(p) ==
    /\ inflight[p].op = "GetByToken"
    /\ LET r == ExpiryCheck(sessions, now, inflight[p].req.Row)
       IN /\ sessions' = r.sessions
          /\ ret' = [op |-> "GetByToken",
                     arg |-> [Token |-> inflight[p].req.Token],
                     err |-> r.err, val |-> r.val]
    /\ inflight' = [inflight EXCEPT ![p] = Idle]
    /\ now' = now
    /\ Remember
    /\ UNCHANGED <<tables, seqs, seen, sessions_id_seq, users, users_id_seq>>

NextRace ==
    \/ \E d \in Durations : SessionCreate(1, d)
    \/ \E t \in 1..MaxSessionID, d \in Durations : Refresh(t, d)
    \/ CleanExpiredSessions
    \/ Tick
    \/ \E t \in 1..MaxSessionID : GetByTokenBegin(1, t)
    \/ GetByTokenFinish(1)

SpecRace == Init /\ [][NextRace]_vars

\* C27: whatever Refresh and CleanExpiredSessions do between the SELECT
\* and the expiry check of a GetByToken, what it returns is an error and
\* no session, or the whole row it read for the token with an ExpiresAt
\* that is not earlier than now at the check.
C27_RaceReturnsLiveOrError ==
    [][\A p \in Procs :
          (inflight[p].op = "GetByToken" /\ inflight'[p] = Idle) =>
             IF ret'.err = ""
             THEN /\ now <= ret'.val.ExpiresAt
                  /\ ret'.val.Token = inflight[p].req.Token
                  /\ \E row \in {inflight[p].req.Row} :
                        /\ ret'.val.ID = row.id
                        /\ ret'.val.UserID = row.user_id
                        /\ ret'.val.ExpiresAt = row.expires_at
             ELSE ret'.val = NoSession]_vars

\* GetByToken returned a session whose row a Refresh changed after the
\* SELECT, at a time after the session was created.
C27_Witness ==
    /\ ret.op = "GetByToken" /\ ret.err = ""
    /\ now > 0
    /\ \E s \in sessions :
          s.token = ret.val.Token /\ s.expires_at # ret.val.ExpiresAt

\* ---------------------------------------------------------------------
\* Cancellation of the request while RecordService.Create or Update runs.
\* The services take no context: they open the transaction with
\* s.DB.Begin() and run every statement without one, so the cancellation
\* of the request's context reaches neither the statements nor the
\* commit. What the transaction wrote becomes visible at its commit.
\* ---------------------------------------------------------------------

\* s.DB.Begin() of Create (op "Create") or Update (op "Update").
TxBegin(p, op, rec) ==
    /\ inflight[p] = Idle
    /\ IF op = "Create" THEN SeqsLeft(rec)
       ELSE tracks_id_seq + Len(rec.Tracks) - 1 <= MaxTrackID
    /\ inflight' = [inflight EXCEPT ![p] =
                       [op |-> op, req |-> [Record |-> rec, Cancelled |-> FALSE]]]
    /\ Pending(p)
    /\ UNCHANGED <<tables, seqs, seen, sessionVars, users, users_id_seq>>

\* The client goes away: r.Context() is cancelled.
Cancel(p) ==
    /\ inflight[p].op \in {"Create", "Update"}
    /\ ~inflight[p].req.Cancelled
    /\ inflight' = [inflight EXCEPT ![p].req.Cancelled = TRUE]
    /\ Pending(p)
    /\ UNCHANGED <<tables, seqs, seen, sessionVars, users, users_id_seq>>

\* The statements of the transaction and tx.Commit(), or the deferred
\* Rollback after a failed statement.
TxFinish(p) ==
    /\ inflight[p].op \in {"Create", "Update"}
    /\ LET rec == inflight[p].req.Record
           r == IF inflight[p].op = "Create" THEN CreateTx(DB, rec)
                ELSE UpdateTx(DB, rec)
       IN /\ Store(r.db)
          /\ ret' = [op |-> inflight[p].op, arg |-> rec, err |-> r.err,
                     val |-> [Cancelled |-> inflight[p].req.Cancelled]]
    /\ inflight' = [inflight EXCEPT ![p] = Idle]
    /\ UNCHANGED <<sessionVars, users, users_id_seq>>

NextCancel ==
    \/ \E rec \in OwnershipCreateInputs : TxBegin(1, "Create", rec)
    \/ \E rec \in OwnershipUpdateInputs : TxBegin(1, "Update", rec)
    \/ Cancel(1)
    \/ TxFinish(1)

SpecCancel == Init /\ [][NextCancel]_vars

\* C28: a Create or Update whose request was cancelled while it ran
\* commits nothing: records, artist_record, genre_record and tracks are as
\* they were before the call.
C28_CancelledNeverCommits ==
    [][\A p \in Procs :
          (/\ inflight[p].op \in {"Create", "Update"}
           /\ inflight[p].req.Cancelled
           /\ inflight'[p] = Idle)
             => UNCHANGED <<records, artist_record, genre_record, tracks>>]_vars

\* ---------------------------------------------------------------------
\* The caller identity in the request context: jwtAuthenticator,
\* auth.Middleware and GetUserIDFromContext
\* ---------------------------------------------------------------------

\* A value stored under the context key "userID", with its Go type.
CtxNone == [Type |-> "nil", Int |-> 0, Str |-> ""]
CtxInt(n) == [Type |-> "int", Int |-> n, Str |-> ""]
CtxString(s) == [Type |-> "string", Int |-> 0, Str |-> s]

\* fmt.Sprintf("%v", n) of a number claim.
Sprintf(n) == ToString(n)

\* TokenAuth.Encode of the Login handler's claims at time clock:
\* {"user_id": user.ID, "email": ..., "exp": now + 24h}, HS256 under
\* JWT_SECRET.
Encode(userID, clock) ==
    LET claims == [HasUserID |-> TRUE, UserID |-> userID,
                   ExpiresAt |-> clock + JWTExpiration]
    IN [Malformed |-> FALSE, Alg |-> "HS256", Claims |-> claims,
        Sig |-> Sign(JWTSecret, claims)]

\* jwtauth.Verify(tokenAuth, TokenFromHeader, TokenFromCookie): the error
\* it leaves in the request context, "" for a verified token.
Verify(h, clock) ==
    IF h.Scheme # "Bearer " THEN "no token found"
    ELSE IF h.Token.Malformed \/ h.Token.Alg # "HS256" THEN "token is unauthorized"
    ELSE IF h.Token.Sig # Sign(JWTSecret, h.Token.Claims) THEN "token is unauthorized"
    ELSE IF ~(clock < h.Token.Claims.ExpiresAt) THEN "token is expired"
    ELSE ""

\* What an authentication middleware hands on: the status and body when
\* it answers itself, whether next.ServeHTTP ran, the user the token was
\* verified for and the value stored under "userID".
Authn(status, body, passed, user, ctx) ==
    [Status |-> status, Body |-> body, Passed |-> passed, User |-> user,
     Ctx |-> ctx]

\* jwtAuthenticator behind jwtauth.Verify, for a path under /api/.
jwtAuthenticator(h, clock) ==
    LET e == Verify(h, clock)
    IN IF e # ""
       THEN Authn(401, "JWT authentication error: " \o e, FALSE, 0, CtxNone)
       ELSE IF ~h.Token.Claims.HasUserID
       THEN Authn(401, "JWT token missing required user_id claim", FALSE, 0,
                  CtxNone)
       ELSE Authn(200, "", TRUE, h.Token.Claims.UserID,
                  CtxString(Sprintf(h.Token.Claims.UserID)))

\* auth.Middleware: context.WithValue(r.Context(), "userID", claims.UserID)
authMiddleware(h, clock) ==
    LET r == MiddlewareOp(h, clock)
    IN IF r.val.Invoked
       THEN Authn(200, "", TRUE, r.val.UserID, CtxInt(r.val.UserID))
       ELSE Authn(r.val.Status, r.err, FALSE, 0, CtxNone)

\* GetUserIDFromContext: r.Context().Value("userID").(int)
GetUserIDFromContext(ctx) ==
    IF ctx.Type = "int" THEN [err |-> "", userID |-> ctx.Int]
    ELSE [err |-> "unauthorized: user ID not found in context", userID |-> 0]

\* RecordHandler.GetRecord with the request context the middleware made:
\* what it answers, whether the identity extraction accepted the context
\* value, and the user id it then works with.
GetRecordWithContext(db, ctx, id) ==
    LET u == GetUserIDFromContext(ctx)
        r == GetByID(db, id)
    IN IF u.err # ""
       THEN [Status |-> 401, Body |-> "Unauthorized", Extracted |-> FALSE,
             UserID |-> 0, Records |-> {}]
       ELSE IF r.err # ""
       THEN [Status |-> 404, Body |-> "Record not found", Extracted |-> TRUE,
             UserID |-> u.userID, Records |-> {}]
       ELSE IF r.rec.Fields.UserID # u.userID
       THEN [Status |-> 401, Body |-> "Unauthorized", Extracted |-> TRUE,
             UserID |-> u.userID, Records |-> {}]
       ELSE [Status |-> 200, Body |-> "", Extracted |-> TRUE,
             UserID |-> u.userID, Records |-> {r.rec}]

\* GET /api/records/{id} through the protected group of a router:
\* "jwtauth" is the group with jwtauth.Verify and jwtAuthenticator,
\* "auth" the group with auth.Middleware.
ProtectedGetRecord(router, h, id) ==
    LET a == IF router = "jwtauth" THEN jwtAuthenticator(h, now)
             ELSE authMiddleware(h, now)
        g == GetRecordWithContext(DB, a.Ctx, id)
        arg == [Router |-> router, Header |-> h, At |-> now, ID |-> id]
    IN /\ ret' = IF ~a.Passed
                 THEN [op |-> "ProtectedGetRecord", arg |-> arg, err |-> a.Body,
                       val |-> [Status |-> a.Status, Passed |-> FALSE,
                                User |-> 0, Extracted |-> FALSE, UserID |-> 0,
                                Records |-> {}]]
                 ELSE [op |-> "ProtectedGetRecord", arg |-> arg, err |-> g.Body,
                       val |-> [Status |-> g.Status, Passed |-> TRUE,
                                User |-> a.User, Extracted |-> g.Extracted,
                                UserID |-> g.UserID, Records |-> g.Records]]
       /\ UNCHANGED <<tables, seqs, seen, sessionVars, userVars>>

\* What a client of the jwtauth group can send at time clock: the tokens
\* Login has encoded so far, each also signed with another key and with
\* another user_id under the old signature; a token the holder of
\* JWT_SECRET signed without user_id; a string that is no token; no
\* Authorization header.
EncodedAt(clock) ==
    LET issued == {Encode(u, t) : u \in Users, t \in 0..clock}
    IN issued
       \cup {[t EXCEPT !.Sig = Sign(OtherKey, t.Claims)] : t \in issued}
       \cup {[t EXCEPT !.Claims.UserID = 3 - @] : t \in issued}
       \cup {[t EXCEPT !.Claims.HasUserID = FALSE,
                       !.Sig = Sign(JWTSecret, [t.Claims EXCEPT !.HasUserID = FALSE])] :
                t \in issued}
       \cup {[Encode(0, 0) EXCEPT !.Malformed = TRUE]}

JwtauthHeadersAt(clock) ==
    {[Scheme |-> "Bearer ", Token |-> t] : t \in EncodedAt(clock)}
        \cup {[Scheme |-> "", Token |-> Encode(1, 0)]}

NextProtected ==
    \/ \E rec \in OwnershipCreateInputs : RecordCreate(rec)
    \/ \E h \in JwtauthHeadersAt(now), id \in 1..MaxRecordID :
          ProtectedGetRecord("jwtauth", h, id)
    \/ \E h \in HeadersAt(now), id \in 1..MaxRecordID :
          ProtectedGetRecord("auth", h, id)
    \/ Tick

SpecProtected == Init /\ [][NextProtected]_vars

\* C29: a request that passed authentication for user U is not answered
\* Unauthorized by the handler's identity extraction, and the user id the
\* handler works with is U.
C29_ContextIdentityAccepted ==
    (ret.op = "ProtectedGetRecord" /\ ret.val.Passed) =>
        /\ ret.val.Extracted
        /\ ret.val.UserID = ret.val.User

\* The same statement for the group behind auth.Middleware alone.
C29_AuthMiddlewareAccepted ==
    (ret.op = "ProtectedGetRecord" /\ ret.arg.Router = "auth" /\ ret.val.Passed) =>
        /\ ret.val.Extracted
        /\ ret.val.UserID = ret.val.User

\* ---------------------------------------------------------------------
\* Referential integrity (specification SpecIntegrity): user 1 creates
\* records, either user updates them with good and with missing
\* references, records are deleted; an artist is created, artists and
\* genres are deleted by their owners and the label by either user.
\* ---------------------------------------------------------------------

IntegrityUpdateInputs ==
    {MakeRecord(id, u, ScalarsAb, rel) :
        id \in 1..MaxRecordID, u \in Users,
        rel \in {RelTwo, RelMissingArtist, RelMissingLabel}}

NextIntegrity ==
    \/ RecordCreate(MakeRecord(0, 1, ScalarsKb, RelOne))
    \/ \E rec \in IntegrityUpdateInputs : RecordUpdate(rec)
    \/ \E id \in 1..MaxRecordID : RecordDelete(id)
    \/ CreateArtist(1, [ID |-> 0, UserID |-> 0, Name |-> <<"Z", "z">>,
                         Description |-> <<>>])
    \/ \E e \in {<<1, 1>>, <<2, 2>>, <<3, 1>>} : ArtistDelete(e[1], e[2])
    \/ \E e \in {<<1, 1>>, <<2, 2>>} : GenreDelete(e[1], e[2])
    \/ \E u \in Users : LabelDelete(1, u)

SpecIntegrity == Init /\ [][NextIntegrity]_vars

\* C30: in every reachable state each artist_record row refers to an
\* existing artist and an existing record, each genre_record row to an
\* existing genre and an existing record, each track to an existing record
\* and each non-null records.label_id to an existing label; GetByID of a
\* record whose label_id is null succeeds and returns no label.
C30_ReferentialIntegrity ==
    /\ \A x \in artist_record :
          ArtistExists(DB, x.artist_id) /\ RecordExists(DB, x.record_id)
    /\ \A x \in genre_record :
          GenreExists(DB, x.genre_id) /\ RecordExists(DB, x.record_id)
    /\ \A t \in tracks : RecordExists(DB, t.record_id)
    /\ \A r \in records :
          IF r.label_id.Valid THEN LabelExists(DB, r.label_id.Int32)
          ELSE /\ GetByID(DB, r.id).err = ""
               /\ GetByID(DB, r.id).rec.Label = {}

\* The label was deleted while a record that was created with it, and
\* never updated since, still exists with its track: its label_id is null
\* and GetByID returns it without a label.
C30_Witness ==
    /\ ret.op = "LabelDelete"
    /\ labels = {}
    /\ \E r \in records :
          /\ r.title = ScalarsKb.Title
          /\ ~r.label_id.Valid
          /\ \E t \in tracks : t.record_id = r.id
          /\ GetByID(DB, r.id).err = ""
          /\ GetByID(DB, r.id).rec.Label = {}

=============================================================================
